---- MODULE Spec2Model ----
(***************************************************************************)
(* A model of the thread-engagement calculation engine                     *)
(* (src/thread_engagement.py).                                             *)
(*                                                                         *)
(* The engine is a set of pure functions over Python floats.  Numbers are  *)
(* modelled as exact rationals (sign, numerator, denominator) over         *)
(* arbitrary-precision naturals, so that the decimal constants of the      *)
(* source (0.9382, 0.54127, 0.7854, 0.5625, 0.62, ...) keep their values.  *)
(* Rounding of IEEE doubles is not modelled.  A Python exception is an     *)
(* outcome record naming the exception class.                              *)
(***************************************************************************)
EXTENDS Integers, Sequences, FiniteSets, TLC

VARIABLES pc, args, ret

vars == <<pc, args, ret>>

(***************************************************************************)
(* Arbitrary-precision naturals: little-endian sequences of limbs in       *)
(* 0..Base-1 without leading (most significant) zero limbs; <<>> is 0.     *)
(***************************************************************************)
Base == 10 ^ 4

\* the limbs of a without its leading zero limbs
NatNorm(a) ==
  LET nz == { i \in 1..Len(a) : a[i] # 0 }
  IN  IF nz = {} THEN <<>>
      ELSE SubSeq(a, 1, CHOOSE m \in nz : \A j \in nz : j <= m)

RECURSIVE NatOfInt(_)
NatOfInt(n) ==
  IF n = 0 THEN <<>> ELSE <<n % Base>> \o NatOfInt(n \div Base)

\* limb i of a, 0 above its length
Limb(a, i) == IF i <= Len(a) THEN a[i] ELSE 0

\* Sums, differences and products are formed over a range lo..hi of limbs,
\* halving the range: s is the limbs of the result in the range, c the carry
\* (or borrow) out of it.
RECURSIVE NatAddC(_, _, _, _, _)
NatAddC(a, b, lo, hi, c) ==
  IF lo = hi
  THEN LET x == Limb(a, lo) + Limb(b, lo) + c
       IN  [s |-> <<x % Base>>, c |-> x \div Base]
  ELSE LET mid == (lo + hi) \div 2
           low == NatAddC(a, b, lo, mid, c)
           high == NatAddC(a, b, mid + 1, hi, low.c)
       IN  [s |-> low.s \o high.s, c |-> high.c]

NatAdd(a, b) ==
  LET n == IF Len(a) > Len(b) THEN Len(a) ELSE Len(b)
      r == NatAddC(a, b, 1, n, 0)
  IN  IF n = 0 THEN <<>>
      ELSE IF r.c = 0 THEN r.s
      ELSE Append(r.s, r.c)

RECURSIVE NatSubB(_, _, _, _, _)
NatSubB(a, b, lo, hi, br) ==
  IF lo = hi
  THEN LET x == Limb(a, lo) - Limb(b, lo) - br
       IN  [s |-> <<IF x < 0 THEN x + Base ELSE x>>, c |-> IF x < 0 THEN 1 ELSE 0]
  ELSE LET mid == (lo + hi) \div 2
           low == NatSubB(a, b, lo, mid, br)
           high == NatSubB(a, b, mid + 1, hi, low.c)
       IN  [s |-> low.s \o high.s, c |-> high.c]

\* a - b for a >= b
NatSub(a, b) == IF a = <<>> THEN <<>> ELSE NatNorm(NatSubB(a, b, 1, Len(a), 0).s)

\* the limbs lo..hi of a and b compared, the most significant first
RECURSIVE NatCmpAt(_, _, _, _)
NatCmpAt(a, b, lo, hi) ==
  IF lo = hi
  THEN (IF a[lo] < b[lo] THEN -1 ELSE IF a[lo] > b[lo] THEN 1 ELSE 0)
  ELSE LET mid == (lo + hi) \div 2
           high == NatCmpAt(a, b, mid + 1, hi)
       IN  IF high # 0 THEN high ELSE NatCmpAt(a, b, lo, mid)

\* -1, 0 or 1 as a < b, a = b, a > b
NatCmp(a, b) ==
  IF Len(a) < Len(b) THEN -1
  ELSE IF Len(a) > Len(b) THEN 1
  ELSE IF a = <<>> THEN 0
  ELSE NatCmpAt(a, b, 1, Len(a))

\* a * m for one limb m
RECURSIVE NatMulLimb(_, _, _, _, _)
NatMulLimb(a, m, lo, hi, c) ==
  IF lo = hi
  THEN LET x == a[lo] * m + c
       IN  [s |-> <<x % Base>>, c |-> x \div Base]
  ELSE LET mid == (lo + hi) \div 2
           low == NatMulLimb(a, m, lo, mid, c)
           high == NatMulLimb(a, m, mid + 1, hi, low.c)
       IN  [s |-> low.s \o high.s, c |-> high.c]

\* a * (the limbs lo..hi of b, taken as a number)
RECURSIVE NatMulAt(_, _, _, _)
NatMulAt(a, b, lo, hi) ==
  IF lo = hi
  THEN LET r == NatMulLimb(a, b[lo], 1, Len(a), 0)
       IN  NatNorm(Append(r.s, r.c))
  ELSE LET mid == (lo + hi) \div 2
           low == NatMulAt(a, b, lo, mid)
           high == NatMulAt(a, b, mid + 1, hi)
       IN  NatAdd(low, IF high = <<>> THEN <<>>
                       ELSE [i \in 1..(mid + 1 - lo) |-> 0] \o high)

NatMul(a, b) ==
  IF a = <<>> \/ b = <<>> THEN <<>> ELSE NatMulAt(a, b, 1, Len(b))

\* 10^k: k \div 4 zero limbs below the limb 10^(k % 4)
NatPow10(k) == [i \in 1..(k \div 4 + 1) |-> IF i = k \div 4 + 1 THEN 10 ^ (k % 4) ELSE 0]

(***************************************************************************)
(* Rationals: sg in {-1, 0, 1}, n the magnitude of the numerator, d > 0    *)
(* the denominator.  Fractions are not reduced: compare with RCmp, never   *)
(* with =.                                                                 *)
(***************************************************************************)
Rat(s, n, d) == [sg |-> IF n = <<>> THEN 0 ELSE s, n |-> n, d |-> d]

RInt(i) == Rat(IF i < 0 THEN -1 ELSE 1, NatOfInt(IF i < 0 THEN -i ELSE i), <<1>>)

\* the decimal literal m * 10^-s
Dec(m, s) ==
  Rat(IF m < 0 THEN -1 ELSE 1, NatOfInt(IF m < 0 THEN -m ELSE m), NatPow10(s))

RNeg(a) == [a EXCEPT !.sg = -a.sg]

RMul(a, b) == Rat(a.sg * b.sg, NatMul(a.n, b.n), NatMul(a.d, b.d))

\* a / b for b /= 0
RDiv(a, b) == Rat(a.sg * b.sg, NatMul(a.n, b.d), NatMul(a.d, b.n))

\* sa * x / d + sb * y / d for signs sa and sb of opposite sign, c being
\* the comparison of x with y
RAddOpposite(c, sa, x, sb, y, d) ==
  IF c = 0 THEN Rat(0, <<>>, d)
  ELSE IF c = 1 THEN Rat(sa, NatSub(x, y), d)
  ELSE Rat(sb, NatSub(y, x), d)

\* sa * x / d + sb * y / d for non-zero signs sa and sb
RAddAligned(sa, x, sb, y, d) ==
  IF sa = sb THEN Rat(sa, NatAdd(x, y), d)
  ELSE RAddOpposite(NatCmp(x, y), sa, x, sb, y, d)

RAdd(a, b) ==
  IF a.sg = 0 THEN b
  ELSE IF b.sg = 0 THEN a
  ELSE RAddAligned(a.sg, NatMul(a.n, b.d), b.sg, NatMul(b.n, a.d), NatMul(a.d, b.d))

RSub(a, b) == RAdd(a, RNeg(b))

\* -1, 0 or 1 as a < b, a = b, a > b
RCmp(a, b) == RSub(a, b).sg

RLt(a, b) == RCmp(a, b) = -1
RLe(a, b) == RCmp(a, b) # 1
REq(a, b) == RCmp(a, b) = 0
RGt(a, b) == RCmp(a, b) = 1
RGe(a, b) == RCmp(a, b) # -1

RZero == RInt(0)

(***************************************************************************)
(* Outcomes of a call: a returned value or a raised exception.             *)
(***************************************************************************)
Ok(v) == [ok |-> TRUE, val |-> v, err |-> "none"]
Raise(e) == [ok |-> FALSE, val |-> <<>>, err |-> e]

Pending == [ok |-> FALSE, val |-> <<>>, err |-> "pending"]

\* Python's float division: x / 0 raises ZeroDivisionError
PyDiv(a, b) == IF b.sg = 0 THEN Raise("ZeroDivisionError") ELSE Ok(RDiv(a, b))

(***************************************************************************)
(* Thread geometry.                                                        *)
(***************************************************************************)
tensile_stress_area(D, p) ==
  LET x == RSub(D, RMul(Dec(9382, 4), p))
  IN  RMul(Dec(7854, 4), RMul(x, x))

\* the record parse_metric_thread builds from D and p
MetricThread(D, p) == [D |-> D, p |-> p, At |-> tensile_stress_area(D, p)]

\* 0.5625 * p * (D - 0.54127 * p), as both solvers compute it
As_factor_of(thread) ==
  RMul(RMul(Dec(5625, 4), thread.p),
       RSub(thread.D, RMul(Dec(54127, 5), thread.p)))

(***************************************************************************)
(* Engagement solvers.                                                     *)
(***************************************************************************)
bolt_tensile_capacity(thread, sigma_y_bolt_MPa, n_bolt) ==
  LET sigma_allow_bolt == PyDiv(sigma_y_bolt_MPa, n_bolt)
  IN  IF ~sigma_allow_bolt.ok THEN sigma_allow_bolt
      ELSE Ok(RMul(thread.At, sigma_allow_bolt.val))

\* a plausible slip: F / As_factor * tau_allow, the divisor's parentheses lost
design_load_without_parentheses(thread, F_design_N, sigma_y_hole_MPa, n_hole, k_shear) ==
  LET tau_allow == PyDiv(RMul(k_shear, sigma_y_hole_MPa), n_hole)
      As_factor == RMul(RMul(Dec(5625, 4), thread.p),
                        RSub(thread.D, RMul(Dec(54127, 5), thread.p)))
      q == PyDiv(F_design_N, As_factor)
  IN  IF ~tau_allow.ok THEN tau_allow
      ELSE IF As_factor.sg <= 0 \/ tau_allow.val.sg <= 0
           THEN Raise("ValueError")
      ELSE IF ~q.ok THEN q
      ELSE Ok(RMul(q.val, tau_allow.val))

required_engagement_for_design_load(thread, F_design_N, sigma_y_hole_MPa, n_hole, k_shear) ==
  LET tau_allow == PyDiv(RMul(k_shear, sigma_y_hole_MPa), n_hole)
      As_factor == RMul(RMul(Dec(5625, 4), thread.p),
                        RSub(thread.D, RMul(Dec(54127, 5), thread.p)))
  IN  IF ~tau_allow.ok THEN tau_allow
      ELSE IF As_factor.sg <= 0 \/ tau_allow.val.sg <= 0
           THEN Raise("ValueError")
      ELSE PyDiv(F_design_N, RMul(As_factor, tau_allow.val))

\* a plausible slip: the allowable shear stress taken with the bolt's safety factor
equal_strength_with_n_bolt(thread, sigma_y_bolt_MPa, sigma_y_hole_MPa, n_bolt, n_hole, k_shear) ==
  LET F_bolt_allow == bolt_tensile_capacity(thread, sigma_y_bolt_MPa, n_bolt)
      tau_allow == PyDiv(RMul(k_shear, sigma_y_hole_MPa), n_bolt)
      As_factor == RMul(RMul(Dec(5625, 4), thread.p),
                        RSub(thread.D, RMul(Dec(54127, 5), thread.p)))
      L_e == PyDiv(F_bolt_allow.val, RMul(As_factor, tau_allow.val))
  IN  IF ~F_bolt_allow.ok THEN F_bolt_allow
      ELSE IF ~tau_allow.ok THEN tau_allow
      ELSE IF As_factor.sg <= 0 \/ tau_allow.val.sg <= 0
           THEN Raise("ValueError")
      ELSE IF ~L_e.ok THEN L_e
      ELSE Ok([L_e |-> L_e.val, F_bolt_allow |-> F_bolt_allow.val])

required_engagement_for_equal_strength(thread, sigma_y_bolt_MPa, sigma_y_hole_MPa, n_bolt, n_hole, k_shear) ==
  LET F_bolt_allow == bolt_tensile_capacity(thread, sigma_y_bolt_MPa, n_bolt)
      tau_allow == PyDiv(RMul(k_shear, sigma_y_hole_MPa), n_hole)
      As_factor == RMul(RMul(Dec(5625, 4), thread.p),
                        RSub(thread.D, RMul(Dec(54127, 5), thread.p)))
      L_e == PyDiv(F_bolt_allow.val, RMul(As_factor, tau_allow.val))
  IN  IF ~F_bolt_allow.ok THEN F_bolt_allow
      ELSE IF ~tau_allow.ok THEN tau_allow
      ELSE IF As_factor.sg <= 0 \/ tau_allow.val.sg <= 0
           THEN Raise("ValueError")
      ELSE IF ~L_e.ok THEN L_e
      ELSE Ok([L_e |-> L_e.val, F_bolt_allow |-> F_bolt_allow.val])

(***************************************************************************)
(* Inputs of the solver runs.                                              *)
(***************************************************************************)
MaxLoadStep == 1
MaxYieldStep == 1
MaxSafetyFactor == 2

\* <<D, p>>: two catalogue threads, then threads with p = 0, with
\* D - 0.9382p < 0 < D - 0.54127p, with both negative, with D - 0.9382p = 0
\* and with D - 0.54127p = 0
ThreadGeoms ==
  { <<RInt(10), Dec(15, 1)>>, <<RInt(8), Dec(125, 2)>>, <<RInt(10), RInt(0)>>,
    <<RInt(1), Dec(15, 1)>>, <<RInt(1), RInt(2)>>, <<Dec(9382, 4), RInt(1)>>,
    <<Dec(54127, 5), RInt(1)>> }

Threads == { MetricThread(g[1], g[2]) : g \in ThreadGeoms }

Loads == { RInt(15000 * i) : i \in 0..MaxLoadStep }
SignedLoads == { RInt(7500 * i) : i \in -1..(MaxLoadStep + 1) }
BoltYields == { RInt(900 * i) : i \in -1..MaxYieldStep }
HoleYields == { RInt(276 * i) : i \in -1..MaxYieldStep }
SafetyFactors == { RInt(i) : i \in -1..MaxSafetyFactor }
ShearFactors == { Dec(62, 2), RInt(0) }

\* D - 0.9382 p, the root of the tensile stress area
CoreDiameter(thread) == RSub(thread.D, RMul(Dec(9382, 4), thread.p))

\* D - 0.54127 p, the factor of the shear area
FlankDiameter(thread) == RSub(thread.D, RMul(Dec(54127, 5), thread.p))

(***************************************************************************)
(* A run is a caller making a fixed sequence of engine calls: pc is the    *)
(* sequence of calls still to make, ret the outcome of each call made.     *)
(***************************************************************************)
NoneCalled(labels) == [l \in labels |-> Pending]

CallEqualStrength ==
  /\ pc # <<>> /\ Head(pc) = "equal_strength"
  /\ ret' = [ret EXCEPT !.equal_strength =
               required_engagement_for_equal_strength(
                 args.thread, args.sigma_y_bolt_MPa, args.sigma_y_hole_MPa,
                 args.n_bolt, args.n_hole, args.k_shear)]
  /\ pc' = Tail(pc)
  /\ UNCHANGED args

\* the caller computes F_bolt itself; without it there is no load to design for
CallBoltCapacity ==
  /\ pc # <<>> /\ Head(pc) = "capacity"
  /\ LET r == bolt_tensile_capacity(args.thread, args.sigma_y_bolt_MPa,
                                    args.n_bolt)
     IN  /\ ret' = [ret EXCEPT !.capacity = r]
         /\ pc' = IF r.ok THEN Tail(pc)
                  ELSE SelectSeq(Tail(pc), LAMBDA l : l # "design_at_capacity")
  /\ UNCHANGED args

CallDesignLoad ==
  /\ pc # <<>>
  /\ Head(pc) \in {"design_at_capacity", "design_at_load",
                   "design_at_load2", "design_at_yield2"}
  /\ LET F == CASE Head(pc) = "design_at_capacity" -> ret.capacity.val
                [] Head(pc) = "design_at_load2" -> args.F_design_N2
                [] OTHER -> args.F_design_N
         sigma == IF Head(pc) = "design_at_yield2" THEN args.sigma_y_hole_MPa2
                  ELSE args.sigma_y_hole_MPa
     IN  ret' = [ret EXCEPT ![Head(pc)] =
                   required_engagement_for_design_load(
                     args.thread, F, sigma, args.n_hole, args.k_shear)]
  /\ pc' = Tail(pc)
  /\ UNCHANGED args

(***************************************************************************)
(* SpecSolver: one run calls the equal-strength solver, the bolt capacity, *)
(* the design-load solver at that capacity (when there is one) and the     *)
(* design-load solver at the run's own load, all on the same thread,       *)
(* hole yield, n_hole and k_shear.                                         *)
(***************************************************************************)
SolverArgs ==
  [thread : Threads, F_design_N : Loads, sigma_y_bolt_MPa : BoltYields,
   sigma_y_hole_MPa : HoleYields, n_bolt : SafetyFactors,
   n_hole : SafetyFactors, k_shear : ShearFactors]

SolverCalls == <<"equal_strength", "capacity", "design_at_capacity", "design_at_load">>

InitSolver ==
  /\ pc = SolverCalls
  /\ args \in SolverArgs
  /\ ret = NoneCalled({"equal_strength", "capacity", "design_at_capacity", "design_at_load"})

NextSolver == CallEqualStrength \/ CallBoltCapacity \/ CallDesignLoad

SpecSolver == InitSolver /\ [][NextSolver]_vars

SolverDone == pc = <<>> /\ "equal_strength" \in DOMAIN ret

\* what the caller of capacity-then-design-load ends with
CapacityThenDesign == IF ret.capacity.ok THEN ret.design_at_capacity ELSE ret.capacity

C3_DegenerateGeometryRaises ==
  SolverDone =>
    /\ FlankDiameter(args.thread).sg <= 0 =>
         ~ret.design_at_load.ok /\ ~ret.equal_strength.ok
    /\ CoreDiameter(args.thread).sg <= 0 => ~ret.equal_strength.ok

\* the shear-area half of C3, which the code does keep
C3_DegenerateShearAreaRaises ==
  SolverDone /\ FlankDiameter(args.thread).sg <= 0 =>
    ~ret.design_at_load.ok /\ ~ret.equal_strength.ok

\* tau_allow = k_shear * sigma_y_hole / n_hole is defined and <= 0
TauAllowNonPositive ==
  args.n_hole.sg # 0 /\ args.k_shear.sg * args.sigma_y_hole_MPa.sg * args.n_hole.sg <= 0

TauAllowPositive ==
  args.n_hole.sg # 0 /\ args.k_shear.sg * args.sigma_y_hole_MPa.sg * args.n_hole.sg = 1

TauAllow == RDiv(RMul(args.k_shear, args.sigma_y_hole_MPa), args.n_hole)

\* C4 (the claim as stated): each solver raises ValueError whenever
\* As_factor <= 0 or tau_allow <= 0, and otherwise (both positive) returns
\* L_e = F / (As_factor * tau_allow), F being the design load or the bolt
\* capacity.
C4_SolversFailOrReturnQuotient ==
  SolverDone =>
    LET As == As_factor_of(args.thread)
    IN  /\ (As.sg <= 0 \/ TauAllowNonPositive) =>
             /\ ret.design_at_load.err = "ValueError"
             /\ ret.equal_strength.err = "ValueError"
        /\ (As.sg = 1 /\ TauAllowPositive) =>
             /\ ret.design_at_load.ok
             /\ REq(ret.design_at_load.val, RDiv(args.F_design_N, RMul(As, TauAllow)))
             /\ ret.equal_strength.ok
             /\ REq(ret.equal_strength.val.L_e,
                    RDiv(RMul(args.thread.At, RDiv(args.sigma_y_bolt_MPa, args.n_bolt)),
                         RMul(As, TauAllow)))

\* what remains of C4 once both safety factors are non-zero
C4_HoldsForNonZeroSafetyFactors ==
  (args.n_hole.sg # 0 /\ args.n_bolt.sg # 0) => C4_SolversFailOrReturnQuotient

\* C5 (the claim as stated): a non-positive hole yield or n_hole makes both
\* solvers raise ValueError, and a non-positive bolt yield or n_bolt makes the
\* equal-strength solver raise ValueError.
C5_NonPositiveInputsRaiseValueError ==
  SolverDone =>
    /\ (args.sigma_y_hole_MPa.sg <= 0 \/ args.n_hole.sg <= 0) =>
         /\ ret.design_at_load.err = "ValueError"
         /\ ret.equal_strength.err = "ValueError"
    /\ (args.sigma_y_bolt_MPa.sg <= 0 \/ args.n_bolt.sg <= 0) =>
         ret.equal_strength.err = "ValueError"

(***************************************************************************)
(* SpecMono: one run calls the design-load solver three times on one       *)
(* thread, n_hole and k_shear: at (F, sigma), at (F2, sigma) and at        *)
(* (F, sigma2).                                                            *)
(***************************************************************************)
MonoThreads == { MetricThread(RInt(10), Dec(15, 1)), MetricThread(RInt(10), RInt(0)) }

MonoYields == { RInt(138 * i) : i \in -2..(MaxYieldStep + 1) }

MonoArgs ==
  [thread : MonoThreads, F_design_N : SignedLoads, F_design_N2 : SignedLoads,
   sigma_y_hole_MPa : MonoYields, sigma_y_hole_MPa2 : MonoYields,
   n_hole : SafetyFactors, k_shear : ShearFactors]

InitMono ==
  /\ pc = <<"design_at_load", "design_at_load2", "design_at_yield2">>
  /\ args \in MonoArgs
  /\ ret = NoneCalled({"design_at_load", "design_at_load2", "design_at_yield2"})

NextMono == CallDesignLoad

SpecMono == InitMono /\ [][NextMono]_vars

MonoDone == pc = <<>> /\ "design_at_yield2" \in DOMAIN ret

LoadPairAccepted ==
  /\ MonoDone /\ ret.design_at_load.ok /\ ret.design_at_load2.ok
  /\ RLt(args.F_design_N, args.F_design_N2)

YieldPairAccepted ==
  /\ MonoDone /\ ret.design_at_load.ok /\ ret.design_at_yield2.ok
  /\ RLt(args.sigma_y_hole_MPa, args.sigma_y_hole_MPa2)

\* C2 (the claim as stated): over accepted calls L_e is strictly increasing
\* in the load and strictly decreasing in the hole yield, whatever load is
\* held fixed.
C2_StrictlyMonotone ==
  /\ LoadPairAccepted => RLt(ret.design_at_load.val, ret.design_at_load2.val)
  /\ YieldPairAccepted => RGt(ret.design_at_load.val, ret.design_at_yield2.val)

\* C2 (amended): over accepted calls L_e is strictly increasing in the load;
\* in the hole yield it is strictly decreasing when the fixed load and the
\* yields have the same sign (a positive load and positive yields in
\* particular), it is 0 at every yield when the load is 0, and it is
\* strictly increasing when load and yields have opposite signs.
C2_MonotoneBySign ==
  /\ LoadPairAccepted => RLt(ret.design_at_load.val, ret.design_at_load2.val)
  /\ YieldPairAccepted =>
       LET s == args.F_design_N.sg * args.sigma_y_hole_MPa.sg
       IN  /\ args.sigma_y_hole_MPa.sg = args.sigma_y_hole_MPa2.sg
           /\ s = 1 => RGt(ret.design_at_load.val, ret.design_at_yield2.val)
           /\ s = 0 => /\ ret.design_at_load.val.sg = 0
                       /\ ret.design_at_yield2.val.sg = 0
           /\ s = -1 => RLt(ret.design_at_load.val, ret.design_at_yield2.val)

C2_Witness ==
  /\ LoadPairAccepted /\ YieldPairAccepted
  /\ args.F_design_N.sg = 1 /\ args.sigma_y_hole_MPa.sg = 1 /\ args.n_hole.sg = 1
  /\ RGt(ret.design_at_load.val, ret.design_at_yield2.val)
  /\ RLt(ret.design_at_load.val, ret.design_at_load2.val)

(***************************************************************************)
(* Text.  A str is a sequence of one-character strings.  The characters    *)
(* modelled are the digits, ". + - _", the letters M X E Q in both cases   *)
(* and the space; float() of a text over them is a decimal: digits (most   *)
(* significant first, no leading or trailing zero) times 10^exp.           *)
(***************************************************************************)
Digits == {"0", "1", "2", "3", "4", "5", "6", "7", "8", "9"}

DigitVal(c) == CASE c = "0" -> 0 [] c = "1" -> 1 [] c = "2" -> 2 [] c = "3" -> 3 [] c = "4" -> 4 [] c = "5" -> 5 [] c = "6" -> 6 [] c = "7" -> 7 [] c = "8" -> 8 [] c = "9" -> 9

DigitChar(d) == <<"0", "1", "2", "3", "4", "5", "6", "7", "8", "9">>[d + 1]

\* str.upper() on one character
upper(c) == CASE c = "m" -> "M" [] c = "x" -> "X" [] c = "e" -> "E" [] c = "q" -> "Q" [] OTHER -> c

\* str.strip()
RECURSIVE strip(_)
strip(s) ==
  IF s = <<>> THEN s
  ELSE IF Head(s) = " " THEN strip(Tail(s))
  ELSE IF s[Len(s)] = " " THEN strip(SubSeq(s, 1, Len(s) - 1))
  ELSE s

\* a plausible slip: only the strip, embedded spaces kept
keep_spaces(s) == s

\* str.replace(' ', '')
replace_spaces(s) == SelectSeq(s, LAMBDA c : c # " ")

\* str.find(c) + 1: the place of the first c in s, 0 when there is none
RECURSIVE find(_, _, _)
find(s, c, i) ==
  IF i > Len(s) THEN 0 ELSE IF s[i] = c THEN i ELSE find(s, c, i + 1)

RECURSIVE StripLeadingZeros(_)
StripLeadingZeros(ds) ==
  IF ds # <<>> /\ Head(ds) = 0 THEN StripLeadingZeros(Tail(ds)) ELSE ds

\* the decimal digits * 10^exp, its digits without leading and trailing zeros
RECURSIVE DecFloat(_, _, _)
DecFloat(sg, ds, exp) ==
  LET d == StripLeadingZeros(ds)
  IN  IF d = <<>> THEN [sg |-> 0, digits |-> <<>>, exp |-> 0]
      ELSE IF d[Len(d)] = 0 THEN DecFloat(sg, SubSeq(d, 1, Len(d) - 1), exp + 1)
      ELSE [sg |-> sg, digits |-> d, exp |-> exp]

RECURSIVE NatOfDigits(_)
NatOfDigits(ds) ==
  IF ds = <<>> THEN <<>>
  ELSE NatAdd(NatMul(NatOfDigits(SubSeq(ds, 1, Len(ds) - 1)), <<10>>),
              NatOfInt(ds[Len(ds)]))

\* the value of a decimal as a rational
ToRat(x) ==
  IF x.exp >= 0 THEN Rat(x.sg, NatMul(NatOfDigits(x.digits), NatPow10(x.exp)), <<1>>)
  ELSE Rat(x.sg, NatOfDigits(x.digits), NatPow10(-x.exp))

RECURSIVE SmallInt(_)
SmallInt(ds) == IF ds = <<>> THEN 0 ELSE 10 * SmallInt(SubSeq(ds, 1, Len(ds) - 1)) + ds[Len(ds)]

\* the digits of a digitpart (digit ("_"? digit)*) starting at s[i], and the
\* place after it; no digits when s[i] is no digit
RECURSIVE ScanDigits(_, _, _)
ScanDigits(s, i, acc) ==
  IF i <= Len(s) /\ s[i] \in Digits
  THEN ScanDigits(s, i + 1, Append(acc, DigitVal(s[i])))
  ELSE IF acc # <<>> /\ i < Len(s) /\ s[i] = "_" /\ s[i + 1] \in Digits
  THEN ScanDigits(s, i + 1, acc)
  ELSE [digits |-> acc, next |-> i]

\* float(s) for a text s without surrounding whitespace
float(s) ==
  LET signed == s # <<>> /\ Head(s) \in {"+", "-"}
      sg == IF signed /\ Head(s) = "-" THEN -1 ELSE 1
      i0 == IF signed THEN 2 ELSE 1
      int == ScanDigits(s, i0, <<>>)
      dot == int.next <= Len(s) /\ s[int.next] = "."
      frac == IF dot THEN ScanDigits(s, int.next + 1, <<>>)
              ELSE [digits |-> <<>>, next |-> int.next]
      hasE == frac.next <= Len(s) /\ s[frac.next] = "E"
      esigned == hasE /\ frac.next < Len(s) /\ s[frac.next + 1] \in {"+", "-"}
      esg == IF esigned /\ s[frac.next + 1] = "-" THEN -1 ELSE 1
      e == IF hasE THEN ScanDigits(s, frac.next + (IF esigned THEN 2 ELSE 1), <<>>)
           ELSE [digits |-> <<>>, next |-> frac.next]
  IN  IF int.digits = <<>> /\ frac.digits = <<>> THEN Raise("ValueError")
      ELSE IF hasE /\ e.digits = <<>> THEN Raise("ValueError")
      ELSE IF e.next # Len(s) + 1 THEN Raise("ValueError")
      ELSE Ok(DecFloat(sg, int.digits \o frac.digits,
                       esg * SmallInt(e.digits) - Len(frac.digits)))

Zeros(k) == [i \in 1..k |-> "0"]

DigitText(ds) == [i \in 1..Len(ds) |-> DigitChar(ds[i])]

RECURSIVE IntDigits(_)
IntDigits(n) == IF n = 0 THEN <<>> ELSE Append(IntDigits(n \div 10), n % 10)

\* repr(x) of a float x, as an f-string formats it
FloatRepr(x) ==
  LET n == Len(x.digits)
      decpt == n + x.exp
      sign == IF x.sg = -1 THEN <<"-">> ELSE <<>>
      ex == decpt - 1
      exdigits == DigitText(IntDigits(IF ex < 0 THEN -ex ELSE ex))
  IN  IF x.sg = 0 THEN <<"0", ".", "0">>
      ELSE IF decpt > -4 /\ decpt <= 16
      THEN sign \o (IF decpt <= 0 THEN <<"0", ".">> \o Zeros(-decpt) \o DigitText(x.digits)
                    ELSE IF decpt >= n THEN DigitText(x.digits) \o Zeros(decpt - n) \o <<".", "0">>
                    ELSE DigitText(SubSeq(x.digits, 1, decpt)) \o <<".">>
                         \o DigitText(SubSeq(x.digits, decpt + 1, n)))
      ELSE sign \o <<DigitChar(x.digits[1])>>
           \o (IF n > 1 THEN <<".">> \o DigitText(SubSeq(x.digits, 2, n)) ELSE <<>>)
           \o <<"e", IF ex < 0 THEN "-" ELSE "+">>
           \o (IF Len(exdigits) < 2 THEN <<"0">> ELSE <<>>) \o exdigits

\* float.is_integer()
is_integer(x) == x.sg = 0 \/ x.exp >= 0

\* str(int(x)) for an integral x
IntRepr(x) ==
  IF x.sg = 0 THEN <<"0">>
  ELSE (IF x.sg = -1 THEN <<"-">> ELSE <<>>) \o DigitText(x.digits) \o Zeros(x.exp)

\* a float literal of the source: digits * 10^exp
Lit(ds, exp) == DecFloat(1, ds, exp)

COARSE_PITCH ==
  (<<"M", "3">> :> Lit(<<0, 5>>, -1)) @@
  (<<"M", "4">> :> Lit(<<0, 7>>, -1)) @@
  (<<"M", "5">> :> Lit(<<0, 8>>, -1)) @@
  (<<"M", "6">> :> Lit(<<1, 0>>, -1)) @@
  (<<"M", "8">> :> Lit(<<1, 2, 5>>, -2)) @@
  (<<"M", "1", "0">> :> Lit(<<1, 5>>, -1)) @@
  (<<"M", "1", "2">> :> Lit(<<1, 7, 5>>, -2)) @@
  (<<"M", "1", "4">> :> Lit(<<2, 0>>, -1)) @@
  (<<"M", "1", "6">> :> Lit(<<2, 0>>, -1)) @@
  (<<"M", "1", "8">> :> Lit(<<2, 5>>, -1)) @@
  (<<"M", "2", "0">> :> Lit(<<2, 5>>, -1)) @@
  (<<"M", "2", "4">> :> Lit(<<3, 0>>, -1)) @@
  (<<"M", "2", "7">> :> Lit(<<3, 0>>, -1)) @@
  (<<"M", "3", "0">> :> Lit(<<3, 5>>, -1)) @@
  (<<"M", "3", "3">> :> Lit(<<3, 5>>, -1)) @@
  (<<"M", "3", "6">> :> Lit(<<4, 0>>, -1)) @@
  (<<"M", "3", "9">> :> Lit(<<4, 0>>, -1)) @@
  (<<"M", "4", "2">> :> Lit(<<4, 5>>, -1)) @@
  (<<"M", "4", "8">> :> Lit(<<5, 0>>, -1)) @@
  (<<"M", "5", "6">> :> Lit(<<5, 5>>, -1)) @@
  (<<"M", "6", "4">> :> Lit(<<6, 0>>, -1))

\* a plausible slip: the table read without the membership test
coarse_pitch_unchecked(key) ==
  IF key \in DOMAIN COARSE_PITCH THEN Ok(COARSE_PITCH[key]) ELSE Raise("KeyError")

\* the table lookup of a bare diameter
coarse_pitch(key) ==
  IF key \notin DOMAIN COARSE_PITCH THEN Raise("ValueError") ELSE Ok(COARSE_PITCH[key])

\* a plausible slip: '-' tried before 'X'
separator_dash_first(s) ==
  IF find(s, "-", 1) > 0 THEN find(s, "-", 1) ELSE find(s, "X", 1)

\* for sep in ('X', '-'): the place s is split at, 0 when it holds neither
separator(s) ==
  IF find(s, "X", 1) > 0 THEN find(s, "X", 1) ELSE find(s, "-", 1)

\* the record returned for the floats D and p
thread_of(D, p) ==
  [designation |-> <<"M">> \o FloatRepr(D) \o <<"x">> \o FloatRepr(p),
   D |-> ToRat(D), p |-> ToRat(p), At |-> tensile_stress_area(ToRat(D), ToRat(p))]

parse_metric_thread(designation) ==
  LET t == strip(designation)
      s0 == replace_spaces([i \in 1..Len(t) |-> upper(t[i])])
      s == Tail(s0)
      at == separator(s)
      d_str == SubSeq(s, 1, at - 1)
      p_str == SubSeq(s, at + 1, Len(s))
      D == float(IF at > 0 THEN d_str ELSE s)
      p == float(p_str)
      key == <<"M">> \o (IF is_integer(D.val) THEN IntRepr(D.val) ELSE FloatRepr(D.val))
      coarse == coarse_pitch(key)
  IN  IF s0 = <<>> \/ Head(s0) # "M" THEN Raise("ValueError")
      ELSE IF ~D.ok THEN D
      ELSE IF at > 0 THEN (IF ~p.ok THEN p ELSE Ok(thread_of(D.val, p.val)))
      ELSE IF ~coarse.ok THEN coarse
      ELSE Ok(thread_of(D.val, coarse.val))

(***************************************************************************)
(* SpecParse: one run parses one designation.  The designation is a text   *)
(* put together from pieces, or the text "M{D}x{p}" formatted from two     *)
(* floats D and p.                                                         *)
(***************************************************************************)
MaxPad == 1

Spaces(k) == [i \in 1..k |-> " "]

Pads == { Spaces(k) : k \in 0..MaxPad }

Letters == { <<"M">>, <<"m">>, <<"Q">>, <<>> }

DiameterTexts ==
  { <<"1", "0">>,
    <<"8">>,
    <<"7">>,
    <<"2", ".", "5">>,
    <<"1", "0", ".", "0">>,
    <<"1", "E", "1">>,
    <<"1", "_", "0">>,
    <<>>,
    <<"1", ".", "2", ".", "3">>,
    <<"Q">>,
    <<"+", "1", "0">>,
    <<"1", " ", "0">>,
    <<"0">>,
    <<"1", "2">> }

Separators == { <<>>, <<"x">>, <<"X">>, <<"-">> }

PitchTexts ==
  { <<"1", ".", "5">>,
    <<"1", ".", "2", "5">>,
    <<>>,
    <<"0">>,
    <<"-", "1", ".", "5">>,
    <<"1", "X", "5">>,
    <<"q">>,
    <<"1", "e", "-", "1">>,
    <<"9">>,
    <<"1", ".">>,
    <<"1", "-", "5">> }

TextDesignations ==
  { pad \o l \o d \o sep \o p \o pad :
      pad \in Pads, l \in Letters, d \in DiameterTexts, sep \in Separators, p \in PitchTexts }

\* floats to format: thread sizes, a zero, a negative, and values whose repr
\* is in exponent notation
FormatFloats ==
  { Lit(<<1>>, 1), Lit(<<8>>, 0), Lit(<<1, 5>>, -1), Lit(<<1, 2, 5>>, -2),
    Lit(<<1, 2>>, 0), Lit(<<7, 5>>, -2), Lit(<<1>>, -5), Lit(<<1>>, -6),
    Lit(<<1>>, 16), Lit(<<>>, 0), DecFloat(-1, <<1>>, 0) }

ParseArgs ==
  { [designation |-> t, formatted |-> FALSE, D |-> Lit(<<>>, 0), p |-> Lit(<<>>, 0)] :
      t \in TextDesignations }
  \cup
  { [designation |-> <<"M">> \o FloatRepr(D) \o <<"x">> \o FloatRepr(p),
     formatted |-> TRUE, D |-> D, p |-> p] : D \in FormatFloats, p \in FormatFloats }

InitParse ==
  /\ pc = <<"parse">>
  /\ args \in ParseArgs
  /\ ret = NoneCalled({"parse"})

CallParse ==
  /\ pc # <<>> /\ Head(pc) = "parse"
  /\ ret' = [ret EXCEPT !.parse = parse_metric_thread(args.designation)]
  /\ pc' = Tail(pc)
  /\ UNCHANGED args

NextParse == CallParse

SpecParse == InitParse /\ [][NextParse]_vars

ParseDone == pc = <<>> /\ "parse" \in DOMAIN ret

\* D > 0, p > 0 and p < D / 0.9382
ValidGeometry(D, p) == D.sg = 1 /\ p.sg = 1 /\ RLt(RMul(Dec(9382, 4), p), D)

NormalText(t) ==
  LET u == SelectSeq(t, LAMBDA c : c # " ") IN [i \in 1..Len(u) |-> upper(u[i])]

\* digit ("_"? digit)*
IsDigitPart(s) ==
  /\ s # <<>>
  /\ \A i \in 1..Len(s) : s[i] \in Digits \cup {"_"}
  /\ s[1] # "_" /\ s[Len(s)] # "_"
  /\ \A i \in 1..(Len(s) - 1) : ~(s[i] = "_" /\ s[i + 1] = "_")

\* digitpart | [digitpart] "." digitpart | digitpart "."
IsMantissa(s) ==
  \/ IsDigitPart(s)
  \/ \E k \in 1..Len(s) :
       /\ s[k] = "."
       /\ k > 1 => IsDigitPart(SubSeq(s, 1, k - 1))
       /\ k < Len(s) => IsDigitPart(SubSeq(s, k + 1, Len(s)))
       /\ Len(s) > 1

Unsigned(s) == IF s # <<>> /\ Head(s) \in {"+", "-"} THEN Tail(s) ELSE s

\* [sign] mantissa [ "E" [sign] digitpart ]
IsNumberText(s) ==
  LET u == Unsigned(s)
  IN  \E m \in 0..Len(u) :
        /\ IsMantissa(SubSeq(u, 1, m))
        /\ m < Len(u) => /\ u[m + 1] = "E"
                         /\ IsDigitPart(Unsigned(SubSeq(u, m + 2, Len(u))))

CoarseDiameters == { 3, 4, 5, 6, 8, 10, 12, 14, 16, 18, 20, 24, 27, 30, 33, 36, 39, 42, 48, 56, 64 }

StartsWithM(t) == NormalText(t) # <<>> /\ NormalText(t)[1] = "M"

Remainder(t) == Tail(NormalText(t))

HasSeparator(t) == \E i \in 1..Len(Remainder(t)) : Remainder(t)[i] \in {"X", "-"}

\* the first "X" when there is one, else the first "-"
SplitAt(t) ==
  LET r == Remainder(t)
      xs == { i \in 1..Len(r) : r[i] = "X" }
      seps == IF xs # {} THEN xs ELSE { i \in 1..Len(r) : r[i] = "-" }
  IN  CHOOSE i \in seps : \A j \in seps : i <= j

DiameterPart(t) == SubSeq(Remainder(t), 1, SplitAt(t) - 1)

PitchPart(t) == SubSeq(Remainder(t), SplitAt(t) + 1, Len(Remainder(t)))

HasCoarseEntry(t) ==
  \E k \in CoarseDiameters : REq(ToRat(float(Remainder(t)).val), RInt(k))

IsParseError(t) ==
  \/ ~StartsWithM(t)
  \/ /\ StartsWithM(t) /\ HasSeparator(t)
     /\ ~(IsNumberText(DiameterPart(t)) /\ IsNumberText(PitchPart(t)))
  \/ /\ StartsWithM(t) /\ ~HasSeparator(t)
     /\ ~(IsNumberText(Remainder(t)) /\ HasCoarseEntry(t))

LoadCase(name, F_axial, F_shear, M_bending) ==
  [name |-> name, F_axial |-> F_axial, F_shear |-> F_shear,
   M_bending |-> M_bending, frequency |-> "None", probability |-> RInt(1)]

\* the equivalent axial load of one case: the bending contribution
with_bending(case, bolt_spacing) ==
  IF case.M_bending.sg = 1 /\ bolt_spacing.sg = 1
  THEN RAdd(case.F_axial, RDiv(RMul(RInt(2), case.M_bending), bolt_spacing))
  ELSE case.F_axial

\* the shear contribution, added to the load F_equiv so far
with_shear(case, F_equiv) ==
  IF case.F_shear.sg = 1
  THEN RAdd(F_equiv, RMul(case.F_shear, Dec(3, 1)))
  ELSE F_equiv

F_equiv_of(case, bolt_spacing) == with_shear(case, with_bending(case, bolt_spacing))

\* the record appended to results_list, L_e and F_bolt_cap being the outcomes
\* of the two solver calls
load_case_record(thread, case, F_equiv, L_e, F_bolt_cap, threads_engaged) ==
  IF ~L_e.ok THEN L_e
  ELSE IF ~F_bolt_cap.ok THEN F_bolt_cap
  ELSE IF ~threads_engaged.ok THEN threads_engaged
  ELSE Ok([load_case |-> case.name,
           F_equivalent_N |-> F_equiv,
           F_axial_N |-> case.F_axial,
           F_shear_N |-> case.F_shear,
           M_bending_Nm |-> case.M_bending,
           L_e_mm |-> L_e.val,
           threads_engaged |-> threads_engaged.val,
           bolt_capacity_N |-> F_bolt_cap.val,
           margin |-> IF F_equiv.sg = 1 THEN RDiv(F_bolt_cap.val, F_equiv)
                      ELSE RInt(999),
           probability |-> case.probability,
           frequency_Hz |-> case.frequency])

\* the solver calls of one pass, on the case's equivalent load
load_case_solved(thread, case, F_equiv, L_e, sigma_y_bolt_MPa, n_bolt) ==
  load_case_record(thread, case, F_equiv, L_e,
                   bolt_tensile_capacity(thread, sigma_y_bolt_MPa, n_bolt),
                   PyDiv(L_e.val, thread.p))

\* one pass of the loop over the cases
load_case_result(thread, case, F_equiv, sigma_y_bolt_MPa, sigma_y_hole_MPa, n_bolt, n_hole) ==
  load_case_solved(thread, case, F_equiv,
                   required_engagement_for_design_load(
                     thread, F_equiv, sigma_y_hole_MPa, n_hole, Dec(62, 2)),
                   sigma_y_bolt_MPa, n_bolt)

\* results_list with the result r of one pass before the results of the
\* passes after it; the first exception ends the loop
append_result(r, rest) ==
  IF ~r.ok THEN r
  ELSE IF ~rest.ok THEN rest
  ELSE Ok(<<r.val>> \o rest.val)

\* the loop: results in input order
RECURSIVE load_case_results(_, _, _, _, _, _, _)
load_case_results(thread, load_cases, sigma_y_bolt_MPa, sigma_y_hole_MPa, n_bolt, n_hole, bolt_spacing) ==
  IF load_cases = <<>> THEN Ok(<<>>)
  ELSE append_result(
         load_case_result(thread, Head(load_cases),
                          F_equiv_of(Head(load_cases), bolt_spacing),
                          sigma_y_bolt_MPa, sigma_y_hole_MPa, n_bolt, n_hole),
         load_case_results(thread, Tail(load_cases), sigma_y_bolt_MPa,
                           sigma_y_hole_MPa, n_bolt, n_hole, bolt_spacing))

\* a plausible slip: a later case of equal L_e replaces the one kept
RECURSIVE max_keeping_last(_, _, _)
max_keeping_last(results_list, i, best) ==
  IF i > Len(results_list) THEN best
  ELSE max_keeping_last(results_list, i + 1,
         IF RGe(results_list[i].L_e_mm, best.L_e_mm) THEN results_list[i] ELSE best)

\* max(results_list, key=L_e_mm) from item i on, best being the item kept so
\* far: an item replaces it only when its key is greater
RECURSIVE max_by_L_e(_, _, _)
max_by_L_e(results_list, i, best) ==
  IF i > Len(results_list) THEN best
  ELSE max_by_L_e(results_list, i + 1,
         IF RGt(results_list[i].L_e_mm, best.L_e_mm) THEN results_list[i] ELSE best)

\* the returned dictionary
analysis_of(results_list, critical_case, num_cases_analyzed) ==
  [all_cases |-> results_list,
   critical_case |-> critical_case,
   design_for |-> critical_case.load_case,
   design_engagement_mm |-> critical_case.L_e_mm,
   num_cases_analyzed |-> num_cases_analyzed]

\* the statements after the loop, results_list being the loop's outcome
critical_of(results_list, num_cases_analyzed) ==
  IF ~results_list.ok THEN results_list
  ELSE IF results_list.val = <<>> THEN Raise("ValueError")
  ELSE Ok(analysis_of(results_list.val,
                      max_by_L_e(results_list.val, 2, results_list.val[1]),
                      num_cases_analyzed))

analyze_load_cases(thread, load_cases, sigma_y_bolt_MPa, sigma_y_hole_MPa, n_bolt, n_hole, bolt_spacing) ==
  critical_of(load_case_results(thread, load_cases, sigma_y_bolt_MPa,
                                sigma_y_hole_MPa, n_bolt, n_hole, bolt_spacing),
              Len(load_cases))

(***************************************************************************)
(* SpecCases: one run analyses a list of load cases.  "Assembly", "Shear"  *)
(* and, at a spacing of 100, "Bending" reach the same equivalent force by  *)
(* different routes; "Reverse" has nothing positive.                       *)
(***************************************************************************)
MaxCases == 3

CaseSet ==
  { LoadCase("Assembly", RInt(5000), RInt(0), RInt(0)),
    LoadCase("Shear", RInt(4700), RInt(1000), RInt(0)),
    LoadCase("Peak", RInt(22000), RInt(0), RInt(0)),
    LoadCase("Bending", RInt(4000), RInt(0), RInt(50000)),
    LoadCase("Reverse", RInt(-3000), RInt(-100), RInt(-5)) }

CaseLists == UNION { [1..n -> CaseSet] : n \in 0..MaxCases }

CaseArgs ==
  [thread : { MetricThread(RInt(10), Dec(15, 1)), MetricThread(RInt(1), RInt(2)) },
   load_cases : CaseLists,
   sigma_y_bolt_MPa : { RInt(900) }, sigma_y_hole_MPa : { RInt(276) },
   n_bolt : { RInt(2), RInt(0) }, n_hole : { RInt(2) },
   bolt_spacing : { RInt(100), RInt(0) }]

InitCases ==
  /\ pc = <<"load_cases">>
  /\ args \in CaseArgs
  /\ ret = NoneCalled({"load_cases"})

CallAnalyzeLoadCases ==
  /\ pc # <<>> /\ Head(pc) = "load_cases"
  /\ ret' = [ret EXCEPT !.load_cases =
               analyze_load_cases(args.thread, args.load_cases,
                                  args.sigma_y_bolt_MPa, args.sigma_y_hole_MPa,
                                  args.n_bolt, args.n_hole, args.bolt_spacing)]
  /\ pc' = Tail(pc)
  /\ UNCHANGED args

NextCases == CallAnalyzeLoadCases

SpecCases == InitCases /\ [][NextCases]_vars

CasesDone == pc = <<>> /\ "load_cases" \in DOMAIN ret

\* L_e of the i-th reported case, from the design-load solver on the case's
\* equivalent force
SolverLe(i) ==
  required_engagement_for_design_load(
    args.thread, ret.load_cases.val.all_cases[i].F_equivalent_N,
    args.sigma_y_hole_MPa, args.n_hole, Dec(62, 2)).val

\* C8: whenever analyze_load_cases returns, all_cases holds one record per
\* input case in input order, each with the L_e the design-load solver gives
\* for that case's equivalent force; the critical case is the record of a
\* case k whose L_e is no less than every other and greater than that of
\* every case before it (the first maximum), and design_for and
\* design_engagement_mm are that case's name and L_e.
C8_CriticalCaseIsFirstMaximum ==
  (CasesDone /\ ret.load_cases.ok) =>
    LET r == ret.load_cases.val
        N == Len(args.load_cases)
    IN  /\ N >= 1
        /\ Len(r.all_cases) = N
        /\ r.num_cases_analyzed = N
        /\ \A i \in 1..N :
             /\ r.all_cases[i].load_case = args.load_cases[i].name
             /\ r.all_cases[i].F_axial_N = args.load_cases[i].F_axial
             /\ REq(r.all_cases[i].L_e_mm, SolverLe(i))
        /\ \E k \in 1..N :
             /\ \A j \in 1..N : RLe(SolverLe(j), SolverLe(k))
             /\ \A j \in 1..(k - 1) : RLt(SolverLe(j), SolverLe(k))
             /\ r.critical_case = r.all_cases[k]
             /\ r.design_for = args.load_cases[k].name
             /\ REq(r.design_engagement_mm, SolverLe(k))

\* the maximum is shared by two cases of different names, neither the first
\* of the list
C8_Witness ==
  /\ CasesDone /\ ret.load_cases.ok
  /\ Len(args.load_cases) = 3
  /\ RLt(SolverLe(1), SolverLe(2))
  /\ REq(SolverLe(2), SolverLe(3))
  /\ args.load_cases[2].name # args.load_cases[3].name
  /\ ret.load_cases.val.design_for = args.load_cases[2].name

(***************************************************************************)
(* Standards compliance.                                                   *)
(***************************************************************************)
standards_requirements ==
  [VDI2230 |-> [name |-> "VDI 2230 (Systematic calculation of bolted joints)",
                min_safety_factor |-> Dec(15, 1),
                min_threads_engaged |-> RInt(6),
                max_engagement_ratio |-> Dec(25, 1),
                preload_range |-> <<Dec(6, 1), Dec(9, 1)>>],
   ISO898 |-> [name |-> "ISO 898-1 (Mechanical properties of fasteners)",
               min_safety_factor |-> Dec(15, 1),
               min_threads_engaged |-> RInt(5),
               thread_tolerance |-> "6g/6H"],
   ASME_BPVC |-> [name |-> "ASME Boiler & Pressure Vessel Code",
                  min_safety_factor |-> Dec(20, 1),
                  min_threads_engaged |-> RInt(8)],
   DIN |-> [name |-> "DIN 13 (ISO metric screw threads)",
            min_safety_factor |-> Dec(15, 1),
            min_threads_engaged |-> RInt(5)]]

\* min(a, b): the first argument unless the second is smaller
py_min(a, b) == IF RLt(b, a) THEN b ELSE a

\* a plausible slip: an engagement ratio over the maximum counted as a failure
standards_with_ratio_failing(results, thread, standard) ==
  LET std == IF standard \in DOMAIN standards_requirements
             THEN standards_requirements[standard]
             ELSE standards_requirements["VDI2230"]
      has_stress == "stress_analysis" \in DOMAIN results
      bolt_util == results.stress_analysis.bolt_utilization
      thread_util == results.stress_analysis.thread_utilization
      n_effective ==
        IF has_stress
        THEN py_min(IF bolt_util.sg = 1 THEN RDiv(RInt(1), bolt_util) ELSE RInt(999),
                    IF thread_util.sg = 1 THEN RDiv(RInt(1), thread_util) ELSE RInt(999))
        ELSE IF "margin" \in DOMAIN results THEN results.margin
        ELSE RInt(2)
      safety_ok == RGe(n_effective, std.min_safety_factor)
      has_threads == "min_threads_engaged" \in DOMAIN std
      threads_ok == RGe(results.n_threads, std.min_threads_engaged)
      has_ratio == "max_engagement_ratio" \in DOMAIN std
      ratio == PyDiv(results.L_e_mm, thread.D)
      ratio_ok == RLe(ratio.val, std.max_engagement_ratio)
      checks ==
        <<IF safety_ok THEN <<"pass", "safety_factor">> ELSE <<"fail", "safety_factor">>>>
        \o (IF ~has_threads THEN <<>>
            ELSE IF threads_ok THEN <<<<"pass", "threads_engaged">>>>
            ELSE <<<<"fail", "threads_engaged">>>>)
        \o (IF ~has_ratio THEN <<>>
            ELSE IF ratio_ok THEN <<<<"pass", "engagement_ratio">>>>
            ELSE <<<<"warning", "engagement_ratio">>>>)
      passes == (IF safety_ok THEN 1 ELSE 0)
                + (IF has_threads /\ threads_ok THEN 1 ELSE 0)
                + (IF has_ratio /\ ratio_ok THEN 1 ELSE 0)
      fails == (IF safety_ok THEN 0 ELSE 1)
               + (IF has_threads /\ ~threads_ok THEN 1 ELSE 0)
               + (IF has_ratio /\ ~ratio_ok THEN 1 ELSE 0)
  IN  IF has_stress /\ "bolt_utilization" \notin DOMAIN results.stress_analysis
      THEN Raise("KeyError")
      ELSE IF has_stress /\ "thread_utilization" \notin DOMAIN results.stress_analysis
      THEN Raise("KeyError")
      ELSE IF has_threads /\ "n_threads" \notin DOMAIN results THEN Raise("KeyError")
      ELSE IF has_ratio /\ "L_e_mm" \notin DOMAIN results THEN Raise("KeyError")
      ELSE IF has_ratio /\ ~ratio.ok THEN ratio
      ELSE Ok([standard |-> std.name, checks |-> checks, passes |-> passes,
               fails |-> fails, compliant |-> (fails = 0)])

\* each entry of checks is <<mark, check>>; the text of the message, with its
\* rounded figures, is left out
check_standards_compliance(results, thread, standard) ==
  LET std == IF standard \in DOMAIN standards_requirements
             THEN standards_requirements[standard]
             ELSE standards_requirements["VDI2230"]
      has_stress == "stress_analysis" \in DOMAIN results
      bolt_util == results.stress_analysis.bolt_utilization
      thread_util == results.stress_analysis.thread_utilization
      n_effective ==
        IF has_stress
        THEN py_min(IF bolt_util.sg = 1 THEN RDiv(RInt(1), bolt_util) ELSE RInt(999),
                    IF thread_util.sg = 1 THEN RDiv(RInt(1), thread_util) ELSE RInt(999))
        ELSE IF "margin" \in DOMAIN results THEN results.margin
        ELSE RInt(2)
      safety_ok == RGe(n_effective, std.min_safety_factor)
      has_threads == "min_threads_engaged" \in DOMAIN std
      threads_ok == RGe(results.n_threads, std.min_threads_engaged)
      has_ratio == "max_engagement_ratio" \in DOMAIN std
      ratio == PyDiv(results.L_e_mm, thread.D)
      ratio_ok == RLe(ratio.val, std.max_engagement_ratio)
      checks ==
        <<IF safety_ok THEN <<"pass", "safety_factor">> ELSE <<"fail", "safety_factor">>>>
        \o (IF ~has_threads THEN <<>>
            ELSE IF threads_ok THEN <<<<"pass", "threads_engaged">>>>
            ELSE <<<<"fail", "threads_engaged">>>>)
        \o (IF ~has_ratio THEN <<>>
            ELSE IF ratio_ok THEN <<<<"pass", "engagement_ratio">>>>
            ELSE <<<<"warning", "engagement_ratio">>>>)
      passes == (IF safety_ok THEN 1 ELSE 0)
                + (IF has_threads /\ threads_ok THEN 1 ELSE 0)
                + (IF has_ratio /\ ratio_ok THEN 1 ELSE 0)
      fails == (IF safety_ok THEN 0 ELSE 1)
               + (IF has_threads /\ ~threads_ok THEN 1 ELSE 0)
  IN  IF has_stress /\ "bolt_utilization" \notin DOMAIN results.stress_analysis
      THEN Raise("KeyError")
      ELSE IF has_stress /\ "thread_utilization" \notin DOMAIN results.stress_analysis
      THEN Raise("KeyError")
      ELSE IF has_threads /\ "n_threads" \notin DOMAIN results THEN Raise("KeyError")
      ELSE IF has_ratio /\ "L_e_mm" \notin DOMAIN results THEN Raise("KeyError")
      ELSE IF has_ratio /\ ~ratio.ok THEN ratio
      ELSE Ok([standard |-> std.name, checks |-> checks, passes |-> passes,
               fails |-> fails, compliant |-> (fails = 0)])

(***************************************************************************)
(* SpecStandards: one run checks a results dictionary against a standard,  *)
(* then the same dictionary with another engagement length.                *)
(***************************************************************************)
MaxThreadCount == 8

Utilizations == { RInt(0), Dec(4, 1), Dec(5, 1), Dec(8, 1) }

StressAnalyses == [bolt_utilization : Utilizations, thread_utilization : Utilizations]

ThreadCounts == { RInt(i) : i \in 4..MaxThreadCount } \cup { Dec(59, 1) }

BaseResults == [n_threads : ThreadCounts, L_e_mm : { RInt(10), RInt(25), RInt(26) }]

ResultsDicts ==
  BaseResults
  \cup { b @@ [margin |-> m] : b \in BaseResults, m \in { Dec(14, 1), Dec(25, 1) } }
  \cup { b @@ [stress_analysis |-> a, margin |-> Dec(25, 1)] : b \in BaseResults, a \in StressAnalyses }
  \cup { b @@ [stress_analysis |-> <<>>, margin |-> Dec(25, 1)] : b \in BaseResults }

StandardNames == { "VDI2230", "ISO898", "ASME_BPVC", "DIN", "JIS" }

StandardsArgs ==
  [results : ResultsDicts,
   thread : { MetricThread(RInt(10), Dec(15, 1)), MetricThread(RInt(0), Dec(15, 1)) },
   standard : StandardNames,
   L_e_mm2 : { RInt(10), RInt(26) }]

InitStandards ==
  /\ pc = <<"standards", "standards_other_length">>
  /\ args \in StandardsArgs
  /\ ret = NoneCalled({"standards", "standards_other_length"})

CallStandards ==
  /\ pc # <<>> /\ Head(pc) \in {"standards", "standards_other_length"}
  /\ LET results == IF Head(pc) = "standards" THEN args.results
                    ELSE [args.results EXCEPT !.L_e_mm = args.L_e_mm2]
     IN  ret' = [ret EXCEPT ![Head(pc)] =
                   check_standards_compliance(results, args.thread, args.standard)]
  /\ pc' = Tail(pc)
  /\ UNCHANGED args

NextStandards == CallStandards

SpecStandards == InitStandards /\ [][NextStandards]_vars

StandardsDone == pc = <<>> /\ "standards" \in DOMAIN ret

\* the effective safety factor of the run's results: the lesser reciprocal of
\* the two utilisations (999 for a utilisation that is not positive), else the
\* margin, else 2
Reciprocal(u) == IF RGt(u, RZero) THEN RDiv(RInt(1), u) ELSE RInt(999)

EffectiveSafetyFactor ==
  IF "stress_analysis" \in DOMAIN args.results
  THEN LET a == Reciprocal(args.results.stress_analysis.bolt_utilization)
           b == Reciprocal(args.results.stress_analysis.thread_utilization)
       IN  IF RLe(a, b) THEN a ELSE b
  ELSE IF "margin" \in DOMAIN args.results THEN args.results.margin
  ELSE RInt(2)

MinSafetyFactor == IF args.standard = "ASME_BPVC" THEN RInt(2) ELSE Dec(15, 1)

MinThreadsEngaged ==
  CASE args.standard = "ASME_BPVC" -> RInt(8)
    [] args.standard \in {"ISO898", "DIN"} -> RInt(5)
    [] OTHER -> RInt(6)

SafetyFactorMet == RGe(EffectiveSafetyFactor, MinSafetyFactor)

ThreadsEngagedMet == RGe(args.results.n_threads, MinThreadsEngaged)

\* C9: whenever check_standards_compliance returns, compliant is true exactly
\* when the effective safety factor and the threads engaged both reach the
\* standard's minimum, fails counts the hard checks that failed, compliant is
\* false when the safety factor is below the minimum, and the same results
\* with another engagement length (another outcome of the advisory ratio
\* check) give the same compliant and fails.
C9_CompliantIffHardChecksPass ==
  StandardsDone =>
    /\ ret.standards.ok =>
         /\ ret.standards.val.compliant <=> (SafetyFactorMet /\ ThreadsEngagedMet)
         /\ ret.standards.val.fails = (IF SafetyFactorMet THEN 0 ELSE 1)
                                      + (IF ThreadsEngagedMet THEN 0 ELSE 1)
         /\ ~SafetyFactorMet => ~ret.standards.val.compliant
    /\ (ret.standards.ok /\ ret.standards_other_length.ok) =>
         /\ ret.standards.val.compliant = ret.standards_other_length.val.compliant
         /\ ret.standards.val.fails = ret.standards_other_length.val.fails

\* both hard checks pass and the advisory check passes at one engagement
\* length and warns at the other
C9_Witness ==
  /\ StandardsDone
  /\ ret.standards.ok /\ ret.standards_other_length.ok
  /\ ret.standards.val.compliant
  /\ ret.standards.val.passes = 2 /\ ret.standards_other_length.val.passes = 3
  /\ <<"warning", "engagement_ratio">> \in
       { ret.standards.val.checks[i] : i \in 1..Len(ret.standards.val.checks) }

(***************************************************************************)
(* Fatigue analysis.                                                       *)
(***************************************************************************)
RECURSIVE RPow(_, _)
RPow(x, n) == IF n = 0 THEN RInt(1) ELSE RMul(RPow(x, n - 1), x)

\* a squared k times
RECURSIVE NatSquared(_, _)
NatSquared(a, k) == IF k = 0 THEN a ELSE NatSquared(NatMul(a, a), k - 1)

\* 2^1024: a float power of this magnitude or more is out of range
FloatOverflow == Rat(1, NatSquared(<<2>>, 10), <<1>>)

\* x ** n for a float x and an integer n >= 0
py_pow(x, n) ==
  LET y == RPow(x, n)
  IN  IF RGe(IF y.sg = -1 THEN RNeg(y) ELSE y, FloatOverflow)
      THEN Raise("OverflowError")
      ELSE Ok(y)

finish_factors ==
  [polished |-> RInt(1), ground |-> Dec(88, 2), machined |-> Dec(78, 2),
   hot_rolled |-> Dec(52, 2), as_forged |-> Dec(39, 2)]

\* float('inf') and the finite floats, as the values of cycles_to_failure
Infinite == [inf |-> TRUE, val |-> RZero]
Finite(x) == [inf |-> FALSE, val |-> x]

\* a plausible slip: a safety factor of exactly 1 taken as finite life
infinite_life_above_one(n_fatigue) == RGt(n_fatigue, RInt(1))

\* the test of the classification
infinite_life(n_fatigue) == RGe(n_fatigue, RInt(1))

\* a plausible slip: the plateau test reversed
S_e_prime_plateau_below(sigma_y_bolt_MPa) ==
  IF RGe(sigma_y_bolt_MPa, RInt(1400)) THEN RMul(Dec(5, 1), sigma_y_bolt_MPa) ELSE RInt(700)

\* the endurance limit before correction
S_e_prime(sigma_y_bolt_MPa) ==
  IF RLe(sigma_y_bolt_MPa, RInt(1400)) THEN RMul(Dec(5, 1), sigma_y_bolt_MPa) ELSE RInt(700)

fatigue_analysis(thread, F_mean_N, F_amplitude_N, sigma_y_bolt_MPa, cycles_expected, surface_finish) ==
  LET k_surface == IF surface_finish \in DOMAIN finish_factors
                   THEN finish_factors[surface_finish]
                   ELSE Dec(78, 2)
      k_size == Dec(85, 2)
      k_reliability == Dec(81, 2)
      S_e == RMul(RMul(RMul(S_e_prime(sigma_y_bolt_MPa), k_surface), k_size),
                  k_reliability)
      sigma_mean == IF thread.At.sg = 1 THEN RDiv(F_mean_N, thread.At) ELSE RZero
      sigma_alt == IF thread.At.sg = 1 THEN RDiv(F_amplitude_N, thread.At) ELSE RZero
      n_fatigue ==
        IF S_e.sg = 1 /\ sigma_y_bolt_MPa.sg = 1
        THEN PyDiv(RInt(1), RAdd(RDiv(sigma_alt, S_e),
                                 RDiv(sigma_mean, sigma_y_bolt_MPa)))
        ELSE Ok(RZero)
      power == py_pow(RDiv(S_e, sigma_alt), 9)
      status == IF infinite_life(n_fatigue.val) THEN "INFINITE_LIFE" ELSE "FINITE_LIFE"
      cycles_to_failure ==
        IF infinite_life(n_fatigue.val) THEN Infinite
        ELSE IF sigma_alt.sg = 1 THEN Finite(power.val)
        ELSE Infinite
  IN  IF ~n_fatigue.ok THEN n_fatigue
      ELSE IF ~infinite_life(n_fatigue.val) /\ sigma_alt.sg = 1 /\ ~power.ok THEN power
      ELSE Ok([endurance_limit_MPa |-> S_e,
               mean_stress_MPa |-> sigma_mean,
               alternating_stress_MPa |-> sigma_alt,
               fatigue_safety_factor |-> n_fatigue.val,
               estimated_cycles |-> cycles_to_failure,
               status |-> status,
               safe_for_cycles |-> IF ~cycles_to_failure.inf
                                   THEN RGt(cycles_to_failure.val, cycles_expected)
                                   ELSE TRUE])

(***************************************************************************)
(* SpecFatigue: one run analyses one load history on a thread.             *)
(***************************************************************************)
MaxMeanStep == 2
MaxAmplitudeStep == 2

\* the amplitude at which a polished bolt of yield 900 on M10x1.5 is exactly
\* at its endurance limit
EnduranceLoad ==
  RMul(RMul(RMul(RMul(Dec(5, 1), RInt(900)), RInt(1)), RMul(Dec(85, 2), Dec(81, 2))),
       tensile_stress_area(RInt(10), Dec(15, 1)))

MeanLoads == { RInt(30000 * i) : i \in -1..MaxMeanStep }

AmplitudeLoads ==
  { RInt(5000 * i) : i \in -1..MaxAmplitudeStep } \cup { EnduranceLoad, Dec(1, 31) }

FatigueArgs ==
  [thread : { MetricThread(RInt(10), Dec(15, 1)), MetricThread(Dec(9382, 4), RInt(1)) },
   F_mean_N : MeanLoads,
   F_amplitude_N : AmplitudeLoads,
   sigma_y_bolt_MPa : { RInt(900), RInt(1500), RInt(0), RInt(-900) },
   cycles_expected : { RInt(10 ^ 6), RInt(10 ^ 4) },
   surface_finish : { "polished", "machined", "as_forged", "anodized" }]

InitFatigue ==
  /\ pc = <<"fatigue">>
  /\ args \in FatigueArgs
  /\ ret = NoneCalled({"fatigue"})

CallFatigue ==
  /\ pc # <<>> /\ Head(pc) = "fatigue"
  /\ ret' = [ret EXCEPT !.fatigue =
               fatigue_analysis(args.thread, args.F_mean_N, args.F_amplitude_N,
                                args.sigma_y_bolt_MPa, args.cycles_expected,
                                args.surface_finish)]
  /\ pc' = Tail(pc)
  /\ UNCHANGED args

NextFatigue == CallFatigue

SpecFatigue == InitFatigue /\ [][NextFatigue]_vars

FatigueDone == pc = <<>> /\ "fatigue" \in DOMAIN ret

\* C10: whenever fatigue_analysis returns, status is INFINITE_LIFE exactly
\* when the returned fatigue_safety_factor is at least 1 (and FINITE_LIFE
\* otherwise), and with INFINITE_LIFE the estimated cycles are infinite and
\* safe_for_cycles is true.
C10_InfiniteLifeIffSafetyFactorAtLeastOne ==
  (FatigueDone /\ ret.fatigue.ok) =>
    LET r == ret.fatigue.val
    IN  /\ r.status \in {"INFINITE_LIFE", "FINITE_LIFE"}
        /\ r.status = "INFINITE_LIFE" <=> RCmp(r.fatigue_safety_factor, RInt(1)) >= 0
        /\ r.status = "INFINITE_LIFE" =>
             (r.estimated_cycles.inf /\ r.safe_for_cycles = TRUE)

\* a returned safety factor of exactly 1
C10_Witness ==
  /\ FatigueDone /\ ret.fatigue.ok
  /\ REq(ret.fatigue.val.fatigue_safety_factor, RInt(1))
  /\ ret.fatigue.val.status = "INFINITE_LIFE"
  /\ ret.fatigue.val.estimated_cycles.inf

\* a finite life: the safety factor is below 1 and the cycles are finite
C10_FiniteLifeReached ==
  /\ FatigueDone /\ ret.fatigue.ok
  /\ ret.fatigue.val.status = "FINITE_LIFE"
  /\ ~ret.fatigue.val.estimated_cycles.inf
  /\ ret.fatigue.val.safe_for_cycles

(***************************************************************************)
(* Unit conversion.                                                        *)
(***************************************************************************)
conversions ==
  (<<"N", "lbf">> :> Dec(224809, 6)) @@ (<<"lbf", "N">> :> Dec(444822, 5))
  @@ (<<"mm", "inch">> :> Dec(393701, 7)) @@ (<<"inch", "mm">> :> Dec(254, 1))
  @@ (<<"MPa", "ksi">> :> Dec(145038, 6)) @@ (<<"ksi", "MPa">> :> Dec(689476, 5))
  @@ (<<"Nm", "ft-lbf">> :> Dec(737562, 6)) @@ (<<"ft-lbf", "Nm">> :> Dec(135582, 5))
  @@ (<<"Nm", "in-lbf">> :> Dec(885075, 5)) @@ (<<"in-lbf", "Nm">> :> Dec(112985, 6))
  @@ (<<"kg", "lb">> :> Dec(220462, 5)) @@ (<<"lb", "kg">> :> Dec(453592, 6))

convert_units(value, from_unit, to_unit) ==
  LET key == <<from_unit, to_unit>>
  IN  IF key \in DOMAIN conversions THEN Ok(RMul(value, conversions[key]))
      ELSE Ok(value)

(***************************************************************************)
(* SpecUnits: one run converts a value and converts the result back.       *)
(***************************************************************************)
UnitNames ==
  { "N", "lbf", "mm", "inch", "MPa", "ksi", "Nm", "ft-lbf", "in-lbf", "kg", "lb",
    "furlong" }

UnitValues == { RInt(15000), Dec(225, 1), RInt(400), RInt(1), RInt(0), RInt(-1) }

UnitArgs == [value : UnitValues, from_unit : UnitNames, to_unit : UnitNames]

InitUnits ==
  /\ pc = <<"convert", "convert_back">>
  /\ args \in UnitArgs
  /\ ret = NoneCalled({"convert", "convert_back"})

CallConvert ==
  /\ pc # <<>> /\ Head(pc) = "convert"
  /\ ret' = [ret EXCEPT !.convert =
               convert_units(args.value, args.from_unit, args.to_unit)]
  /\ pc' = Tail(pc)
  /\ UNCHANGED args

CallConvertBack ==
  /\ pc # <<>> /\ Head(pc) = "convert_back"
  /\ ret' = [ret EXCEPT !.convert_back =
               convert_units(ret.convert.val, args.to_unit, args.from_unit)]
  /\ pc' = Tail(pc)
  /\ UNCHANGED args

NextUnits == CallConvert \/ CallConvertBack

SpecUnits == InitUnits /\ [][NextUnits]_vars

UnitsDone == pc = <<>> /\ "convert_back" \in DOMAIN ret

RAbs(a) == IF a.sg = -1 THEN RNeg(a) ELSE a

\* |y - x| <= tol * |x|
Within(y, x, tol) == RLe(RAbs(RSub(y, x)), RMul(tol, RAbs(x)))

\* the pairs of the conversion table, as the source lists them
TablePairs ==
  { <<"N", "lbf">>, <<"mm", "inch">>, <<"MPa", "ksi">>, <<"Nm", "ft-lbf">>,
    <<"Nm", "in-lbf">>, <<"kg", "lb">>,
    <<"lbf", "N">>, <<"inch", "mm">>, <<"ksi", "MPa">>, <<"ft-lbf", "Nm">>,
    <<"in-lbf", "Nm">>, <<"lb", "kg">> }

\* the rounding of double arithmetic is some 10^-16 of a value; 10^-9 is a
\* generous floating-point tolerance
FloatTolerance == Dec(1, 9)

\* the table's factors are given to six significant digits
FactorPrecision == Dec(3, 6)

UnitsRoundTrip(tol) ==
  UnitsDone =>
    /\ ret.convert.ok /\ ret.convert_back.ok
    /\ IF <<args.from_unit, args.to_unit>> \in TablePairs
       THEN /\ <<args.to_unit, args.from_unit>> \in DOMAIN conversions
            /\ Within(ret.convert_back.val, args.value, tol)
       ELSE ret.convert.val = args.value

\* C11: for every pair of the table the reverse pair is in the table and
\* converting there and back recovers the value within floating-point
\* tolerance; for every other pair, equal units included, the value is
\* returned unchanged and nothing is raised.
C11_RoundTripWithinFloatTolerance == UnitsRoundTrip(FloatTolerance)

\* what holds instead: the round trip is within 3 parts in a million, the
\* precision of the factors; the rest of C11 holds as stated
C11_RoundTripWithinFactorPrecision == UnitsRoundTrip(FactorPrecision)

C11_RoundTripReached ==
  /\ UnitsDone
  /\ <<args.from_unit, args.to_unit>> \in TablePairs
  /\ args.value.sg = 1
  /\ ~REq(ret.convert_back.val, args.value)

(***************************************************************************)
(* Design recommendations.  A message is <<list, text>>, list being the    *)
(* list it is appended to and text the message without its leading symbol. *)
(***************************************************************************)
\* a plausible slip: the 80% threshold tested before the 90% one
bolt_messages_warning_first(bolt_util) ==
  IF RGt(bolt_util, Dec(80, 2))
  THEN <<<<"warnings", "High bolt stress (>80%) - consider next larger size">>>>
  ELSE IF RGt(bolt_util, Dec(90, 2))
  THEN <<<<"critical", "CRITICAL: Bolt stress >90% of yield - INCREASE BOLT SIZE IMMEDIATELY">>>>
  ELSE IF RGt(bolt_util, Dec(60, 2))
  THEN <<<<"recommendations", "Bolt stress moderate (60-80%) - acceptable but monitor">>>>
  ELSE IF RLt(bolt_util, Dec(30, 2))
  THEN <<<<"recommendations", "Low bolt utilization (<30%) - could use smaller size for cost savings">>>>
  ELSE <<>>

bolt_messages(bolt_util) ==
  IF RGt(bolt_util, Dec(90, 2))
  THEN <<<<"critical", "CRITICAL: Bolt stress >90% of yield - INCREASE BOLT SIZE IMMEDIATELY">>>>
  ELSE IF RGt(bolt_util, Dec(80, 2))
  THEN <<<<"warnings", "High bolt stress (>80%) - consider next larger size">>>>
  ELSE IF RGt(bolt_util, Dec(60, 2))
  THEN <<<<"recommendations", "Bolt stress moderate (60-80%) - acceptable but monitor">>>>
  ELSE IF RLt(bolt_util, Dec(30, 2))
  THEN <<<<"recommendations", "Low bolt utilization (<30%) - could use smaller size for cost savings">>>>
  ELSE <<>>

thread_messages(thread_util) ==
  IF RGt(thread_util, Dec(90, 2))
  THEN <<<<"critical", "CRITICAL: Thread stress >90% - INCREASE ENGAGEMENT OR USE INSERT">>>>
  ELSE IF RGt(thread_util, Dec(80, 2))
  THEN <<<<"warnings", "High thread stress (>80%) - increase engagement length">>>>
  ELSE IF RLt(thread_util, Dec(30, 2))
  THEN <<<<"recommendations", "Low thread utilization - engagement could be reduced if space limited">>>>
  ELSE <<>>

stress_messages(results) ==
  IF "stress_analysis" \in DOMAIN results
  THEN bolt_messages(results.stress_analysis.bolt_utilization)
       \o thread_messages(results.stress_analysis.thread_utilization)
  ELSE <<>>

engagement_messages(L_e, D) ==
  (IF RLt(L_e, RMul(D, RInt(1)))
   THEN <<<<"warnings", "Engagement < 1x diameter - may be difficult to manufacture">>>>
   ELSE <<>>)
  \o (IF RGt(L_e, RMul(D, RInt(3)))
      THEN <<<<"recommendations", "Long engagement (>3x diameter) - consider larger diameter bolt instead">>>>
      ELSE <<>>)

\* the test for fewer than 5 comes first; the test for fewer than 3 is its elif
threads_engaged_messages(n_threads) ==
  IF RLt(n_threads, RInt(5))
  THEN <<<<"warnings", "Less than 5 threads engaged - vulnerable to stripping">>>>
  ELSE IF RLt(n_threads, RInt(3))
  THEN <<<<"critical", "CRITICAL: Less than 3 threads - UNSAFE for most applications">>>>
  ELSE <<>>

mismatch_messages(ratio) ==
  IF RGt(ratio, RInt(3))
  THEN <<<<"recommendations", "Large strength mismatch - STRONGLY recommend thread insert (Helicoil)">>>>
  ELSE <<>>

margin_messages(results) ==
  IF "margin" \notin DOMAIN results THEN <<>>
  ELSE IF RLt(results.margin, RInt(1))
  THEN <<<<"critical", "CRITICAL: Bolt capacity < design load - DESIGN FAILS">>>>
  ELSE IF RLt(results.margin, Dec(12, 1))
  THEN <<<<"warnings", "Low safety margin (<1.2) - increase bolt size or reduce load">>>>
  ELSE IF RLt(results.margin, Dec(15, 1))
  THEN <<<<"warnings", "Marginal safety factor (<1.5) - not recommended for production">>>>
  ELSE <<>>

soft_material_messages(sigma_y_hole_MPa) ==
  IF RLt(sigma_y_hole_MPa, RInt(300))
  THEN << <<"recommendations", "Soft hole material detected - recommend Helicoil or similar insert">>,
          <<"recommendations", "Consider higher safety factor (n=2.5-3.0) for soft materials">> >>
  ELSE <<>>

load_messages(results) ==
  IF RGt(IF "F_design_N" \in DOMAIN results THEN results.F_design_N ELSE RInt(0), RInt(5000))
  THEN <<<<"recommendations", "High load application - use thread locking (Loctite) and Nord-Lock washers">>>>
  ELSE <<>>

\* the texts appended to one list, in the order of their appends
messages_of(list, messages) ==
  LET own == SelectSeq(messages, LAMBDA m : m[1] = list)
  IN  [i \in 1..Len(own) |-> own[i][2]]

\* a plausible slip: an informational message alone makes the status WARNING
overall_status_counting_info(critical, warnings, recommendations) ==
  IF critical # <<>> THEN "FAIL"
  ELSE IF warnings # <<>> \/ recommendations # <<>> THEN "WARNING"
  ELSE "GOOD"

overall_status(critical, warnings, recommendations) ==
  IF critical # <<>> THEN "FAIL"
  ELSE IF warnings # <<>> THEN "WARNING"
  ELSE "GOOD"

recommendations_of(critical, warnings, recommendations) ==
  [critical |-> critical, warnings |-> warnings, recommendations |-> recommendations,
   overall_status |-> overall_status(critical, warnings, recommendations)]

recommendations_from(messages) ==
  recommendations_of(messages_of("critical", messages),
                     messages_of("warnings", messages),
                     messages_of("recommendations", messages))

generate_design_recommendations(results, thread, sigma_y_bolt_MPa, sigma_y_hole_MPa) ==
  IF "L_e_mm" \notin DOMAIN results THEN Raise("KeyError")
  ELSE IF "n_threads" \notin DOMAIN results THEN Raise("KeyError")
  ELSE IF sigma_y_hole_MPa.sg = 0 THEN Raise("ZeroDivisionError")
  ELSE Ok(recommendations_from(
            stress_messages(results)
            \o engagement_messages(results.L_e_mm, thread.D)
            \o threads_engaged_messages(results.n_threads)
            \o mismatch_messages(RDiv(sigma_y_bolt_MPa, sigma_y_hole_MPa))
            \o margin_messages(results)
            \o soft_material_messages(sigma_y_hole_MPa)
            \o load_messages(results)))

(***************************************************************************)
(* SpecRecommend: one run asks for the recommendations on a result bundle. *)
(***************************************************************************)
MaxEngagedThreads == 5

BoltUtilizations ==
  { Dec(91, 2), Dec(90, 2), Dec(81, 2), Dec(80, 2), Dec(61, 2), Dec(60, 2),
    Dec(30, 2), Dec(29, 2) }

ThreadUtilizations ==
  { Dec(91, 2), Dec(90, 2), Dec(81, 2), Dec(80, 2), Dec(30, 2), Dec(29, 2) }

Margins == { Dec(99, 2), RInt(1), Dec(119, 2), Dec(12, 1), Dec(149, 2), Dec(15, 1) }

EngagedThreads == { RInt(i) : i \in 2..MaxEngagedThreads } \cup { Dec(29, 1) }

BundleCores ==
  [L_e_mm : { RInt(5), RInt(10), RInt(31) }, n_threads : EngagedThreads]

BundleLoads == { b @@ [F_design_N |-> RInt(15000)] : b \in BundleCores } \cup BundleCores

BundleMargins == { b @@ [margin |-> m] : b \in BundleLoads, m \in Margins } \cup BundleLoads

Bundles ==
  BundleMargins
  \cup { b @@ [stress_analysis |-> [bolt_utilization |-> bu, thread_utilization |-> tu]] :
           b \in BundleMargins, bu \in BoltUtilizations, tu \in ThreadUtilizations }

RecommendArgs ==
  [results : Bundles, thread : { MetricThread(RInt(10), Dec(15, 1)) },
   sigma_y_bolt_MPa : { RInt(900) },
   sigma_y_hole_MPa : { RInt(276), RInt(300), RInt(0) }]

InitRecommend ==
  /\ pc = <<"recommend">>
  /\ args \in RecommendArgs
  /\ ret = NoneCalled({"recommend"})

CallRecommend ==
  /\ pc # <<>> /\ Head(pc) = "recommend"
  /\ ret' = [ret EXCEPT !.recommend =
               generate_design_recommendations(args.results, args.thread,
                                               args.sigma_y_bolt_MPa,
                                               args.sigma_y_hole_MPa)]
  /\ pc' = Tail(pc)
  /\ UNCHANGED args

NextRecommend == CallRecommend

SpecRecommend == InitRecommend /\ [][NextRecommend]_vars

RecommendDone == pc = <<>> /\ "recommend" \in DOMAIN ret

Returned == RecommendDone /\ ret.recommend.ok

\* the texts of a returned list, as a set
Listed(list) == { ret.recommend.val[list][i] : i \in 1..Len(ret.recommend.val[list]) }

\* C17: whenever the recommendations are returned, overall_status is FAIL
\* exactly when the critical list is non-empty, WARNING exactly when it is
\* empty and the warnings list is not, GOOD exactly when both are empty,
\* whatever the informational list holds.
C17_StatusFromCriticalAndWarnings ==
  Returned =>
    LET r == ret.recommend.val
    IN  /\ r.overall_status = "FAIL" <=> Len(r.critical) > 0
        /\ r.overall_status = "WARNING" <=> (Len(r.critical) = 0 /\ Len(r.warnings) > 0)
        /\ r.overall_status = "GOOD" <=> (Len(r.critical) = 0 /\ Len(r.warnings) = 0)

\* informational messages alone: the status is GOOD
C17_Witness ==
  /\ Returned
  /\ ret.recommend.val.critical = <<>> /\ ret.recommend.val.warnings = <<>>
  /\ Len(ret.recommend.val.recommendations) >= 2
  /\ ret.recommend.val.overall_status = "GOOD"

\* how many messages of a returned list are among texts
CountIn(list, texts) ==
  Cardinality({ i \in 1..Len(ret.recommend.val[list]) : ret.recommend.val[list][i] \in texts })

ThreadsCritical == "CRITICAL: Less than 3 threads - UNSAFE for most applications"

ThreadsWarning == "Less than 5 threads engaged - vulnerable to stripping"

\* C18: whenever the recommendations are returned, fewer than 3 threads
\* engaged give the 'less than 3 threads' critical message and the status
\* FAIL, and at least 3 but fewer than 5 give the 'less than 5 threads'
\* warning and not the critical message.
C18_ThreadsEngagedGraded ==
  Returned =>
    /\ RLt(args.results.n_threads, RInt(3)) =>
         /\ ThreadsCritical \in Listed("critical")
         /\ ret.recommend.val.overall_status = "FAIL"
    /\ (RGe(args.results.n_threads, RInt(3)) /\ RLt(args.results.n_threads, RInt(5))) =>
         /\ ThreadsWarning \in Listed("warnings")
         /\ ThreadsCritical \notin Listed("critical")

\* what the code does: fewer than 5 threads, fewer than 3 included, give the
\* warning, and the critical message is never issued
C18_ThreadsEngagedOnlyWarn ==
  Returned =>
    /\ ThreadsCritical \notin Listed("critical")
    /\ ThreadsWarning \in Listed("warnings") <=> RLt(args.results.n_threads, RInt(5))

\* fewer than 3 threads engaged and a status that is not FAIL
C18_UnsafeNotFailed ==
  /\ Returned
  /\ RLt(args.results.n_threads, RInt(3))
  /\ ret.recommend.val.overall_status = "WARNING"

BoltTexts ==
  { "CRITICAL: Bolt stress >90% of yield - INCREASE BOLT SIZE IMMEDIATELY",
    "High bolt stress (>80%) - consider next larger size",
    "Bolt stress moderate (60-80%) - acceptable but monitor",
    "Low bolt utilization (<30%) - could use smaller size for cost savings" }

ThreadTexts ==
  { "CRITICAL: Thread stress >90% - INCREASE ENGAGEMENT OR USE INSERT",
    "High thread stress (>80%) - increase engagement length",
    "Low thread utilization - engagement could be reduced if space limited" }

MarginTexts ==
  { "CRITICAL: Bolt capacity < design load - DESIGN FAILS",
    "Low safety margin (<1.2) - increase bolt size or reduce load",
    "Marginal safety factor (<1.5) - not recommended for production" }

\* the messages of one metric are: one critical message when crit, else one
\* warning when warn, else one informational message when info, else none
Graded(texts, crit, warn, info) ==
  /\ CountIn("critical", texts) = (IF crit THEN 1 ELSE 0)
  /\ CountIn("warnings", texts) = (IF ~crit /\ warn THEN 1 ELSE 0)
  /\ CountIn("recommendations", texts) = (IF ~crit /\ ~warn /\ info THEN 1 ELSE 0)

HasStress == "stress_analysis" \in DOMAIN args.results

HasMargin == "margin" \in DOMAIN args.results

BoltUtil == args.results.stress_analysis.bolt_utilization

ThreadUtil == args.results.stress_analysis.thread_utilization

\* C19: whenever the recommendations are returned, each graded metric has at
\* most one message, of the severity of its first matching threshold: bolt
\* utilisation > 0.90 critical, > 0.80 warning, > 0.60 or < 0.30
\* informational; thread utilisation > 0.90 critical, > 0.80 warning, < 0.30
\* informational; margin < 1.0 critical, < 1.5 warning (one message whether
\* below 1.2 or not); each by its own value alone, whatever the other
\* metrics are.
C19_OneMessagePerMetric ==
  Returned =>
    /\ Graded(BoltTexts,
              HasStress /\ RGt(BoltUtil, Dec(9, 1)),
              HasStress /\ RGt(BoltUtil, Dec(8, 1)),
              HasStress /\ (RGt(BoltUtil, Dec(6, 1)) \/ RLt(BoltUtil, Dec(3, 1))))
    /\ Graded(ThreadTexts,
              HasStress /\ RGt(ThreadUtil, Dec(9, 1)),
              HasStress /\ RGt(ThreadUtil, Dec(8, 1)),
              HasStress /\ RLt(ThreadUtil, Dec(3, 1)))
    /\ Graded(MarginTexts,
              HasMargin /\ RLt(args.results.margin, RInt(1)),
              HasMargin /\ RLt(args.results.margin, Dec(15, 1)),
              FALSE)
    /\ (HasMargin /\ RGe(args.results.margin, RInt(1)) /\ RLt(args.results.margin, Dec(12, 1)))
         => "Low safety margin (<1.2) - increase bolt size or reduce load" \in Listed("warnings")
    /\ (HasMargin /\ RGe(args.results.margin, Dec(12, 1)) /\ RLt(args.results.margin, Dec(15, 1)))
         => "Marginal safety factor (<1.5) - not recommended for production" \in Listed("warnings")
    /\ (HasStress /\ RLe(BoltUtil, Dec(8, 1)) /\ RGt(BoltUtil, Dec(6, 1)))
         => "Bolt stress moderate (60-80%) - acceptable but monitor" \in Listed("recommendations")

\* the three metrics speak at once, each with its own severity
C19_Witness ==
  /\ Returned /\ HasStress /\ HasMargin
  /\ RGt(BoltUtil, Dec(9, 1))
  /\ RLt(ThreadUtil, Dec(3, 1))
  /\ REq(args.results.margin, Dec(149, 2))
  /\ CountIn("critical", BoltTexts) = 1
  /\ CountIn("recommendations", ThreadTexts) = 1
  /\ CountIn("warnings", MarginTexts) = 1

(***************************************************************************)
(* Catalogues.                                                             *)
(***************************************************************************)
FINE_PITCH ==
  ("M8" :> <<RInt(1)>>)
  @@ ("M10" :> <<Dec(125, 2), RInt(1)>>)
  @@ ("M12" :> <<Dec(15, 1), Dec(125, 2), RInt(1)>>)
  @@ ("M14" :> <<Dec(15, 1), Dec(125, 2)>>)
  @@ ("M16" :> <<Dec(15, 1), RInt(1)>>)
  @@ ("M18" :> <<RInt(2), Dec(15, 1), RInt(1)>>)
  @@ ("M20" :> <<RInt(2), Dec(15, 1), RInt(1)>>)
  @@ ("M24" :> <<RInt(2), Dec(15, 1)>>)
  @@ ("M30" :> <<RInt(2), Dec(15, 1)>>)
  @@ ("M36" :> <<RInt(3), RInt(2)>>)

MATERIALS ==
  ("Steel_1018" :> [name |-> "Low Carbon Steel (1018)", sigma_y |-> RInt(370), type |-> "steel"])
  @@ ("Steel_4140" :> [name |-> "Alloy Steel (4140)", sigma_y |-> RInt(415), type |-> "steel"])
  @@ ("Steel_4340" :> [name |-> "Alloy Steel (4340)", sigma_y |-> RInt(470), type |-> "steel"])
  @@ ("Steel_8.8" :> [name |-> "Grade 8.8 Bolt Steel", sigma_y |-> RInt(640), type |-> "steel"])
  @@ ("Steel_10.9" :> [name |-> "Grade 10.9 Bolt Steel", sigma_y |-> RInt(900), type |-> "steel"])
  @@ ("Steel_12.9" :> [name |-> "Grade 12.9 Bolt Steel", sigma_y |-> RInt(1080), type |-> "steel"])
  @@ ("SS_304" :> [name |-> "Stainless Steel 304", sigma_y |-> RInt(215), type |-> "stainless"])
  @@ ("SS_316" :> [name |-> "Stainless Steel 316", sigma_y |-> RInt(205), type |-> "stainless"])
  @@ ("Al_6061_T6" :> [name |-> "Aluminum 6061-T6", sigma_y |-> RInt(275), type |-> "aluminum"])
  @@ ("Al_7075_T6" :> [name |-> "Aluminum 7075-T6", sigma_y |-> RInt(505), type |-> "aluminum"])
  @@ ("Al_2024_T3" :> [name |-> "Aluminum 2024-T3", sigma_y |-> RInt(345), type |-> "aluminum"])
  @@ ("Cast_Iron" :> [name |-> "Gray Cast Iron", sigma_y |-> RInt(275), type |-> "cast_iron"])
  @@ ("Brass" :> [name |-> "Brass (C36000)", sigma_y |-> RInt(125), type |-> "brass"])
  @@ ("Bronze" :> [name |-> "Phosphor Bronze", sigma_y |-> RInt(345), type |-> "bronze"])

get_material_yield_strength(materials, material_key) ==
  IF material_key \notin DOMAIN materials THEN Raise("ValueError")
  ELSE Ok(materials[material_key].sigma_y)

\* a plausible slip: the loop accumulating the equivalent load in the case
load_cases_accumulating(load_cases, bolt_spacing) ==
  [i \in 1..Len(load_cases) |->
     [load_cases[i] EXCEPT !.F_axial = F_equiv_of(load_cases[i], bolt_spacing)]]

\* the LoadCase list once analyze_load_cases has run: F_equiv is a local of
\* the loop, the cases are only read
load_cases_after_loop(load_cases, bolt_spacing) ==
  [i \in 1..Len(load_cases) |-> load_cases[i]]

(***************************************************************************)
(* SpecPure: a process holding the catalogues, a thread, a result bundle   *)
(* and a list of load cases makes an engine call, then up to MaxBetween    *)
(* other calls, then the first call again.  Here args is everything the    *)
(* calls can reach, and ret the outcomes in the order of the calls.        *)
(***************************************************************************)
MaxBetween == 2

EngineCalls == { "parse", "material", "cases", "recommend", "standards" }

CallSequences ==
  { <<c>> \o m \o <<c>> :
      c \in EngineCalls, m \in UNION { [1..n -> EngineCalls] : n \in 0..MaxBetween } }

PureArgs ==
  [COARSE_PITCH : { COARSE_PITCH }, FINE_PITCH : { FINE_PITCH }, MATERIALS : { MATERIALS },
   designation : { <<"M", "1", "0">>, <<"m", "7">> },
   material_key : { "Steel_10.9", "Unobtainium" },
   thread : { MetricThread(RInt(10), Dec(15, 1)) },
   load_cases : { << LoadCase("Shear", RInt(4700), RInt(1000), RInt(0)),
                     LoadCase("Bending", RInt(4000), RInt(0), RInt(50000)) >>,
                  << LoadCase("Assembly", RInt(5000), RInt(0), RInt(0)) >> },
   results : { [L_e_mm |-> RInt(10), n_threads |-> RInt(4), margin |-> Dec(14, 1)],
               [L_e_mm |-> RInt(31), n_threads |-> RInt(8), margin |-> Dec(25, 1),
                F_design_N |-> RInt(15000),
                stress_analysis |-> [bolt_utilization |-> Dec(5, 1),
                                     thread_utilization |-> Dec(91, 2)]] },
   sigma_y_bolt_MPa : { RInt(900) }, sigma_y_hole_MPa : { RInt(276) },
   n_bolt : { RInt(2) }, n_hole : { RInt(2) }, bolt_spacing : { RInt(100) },
   standard : { "VDI2230" }]

InitPure ==
  /\ pc \in CallSequences
  /\ args \in PureArgs
  /\ ret = <<>>

PureParse ==
  /\ pc # <<>> /\ Head(pc) = "parse"
  /\ ret' = Append(ret, [call |-> "parse", out |-> parse_metric_thread(args.designation)])
  /\ pc' = Tail(pc)
  /\ UNCHANGED args

PureMaterial ==
  /\ pc # <<>> /\ Head(pc) = "material"
  /\ ret' = Append(ret, [call |-> "material",
                         out |-> get_material_yield_strength(args.MATERIALS,
                                                             args.material_key)])
  /\ pc' = Tail(pc)
  /\ UNCHANGED args

PureCases ==
  /\ pc # <<>> /\ Head(pc) = "cases"
  /\ ret' = Append(ret, [call |-> "cases",
                         out |-> analyze_load_cases(
                                   args.thread, args.load_cases, args.sigma_y_bolt_MPa,
                                   args.sigma_y_hole_MPa, args.n_bolt, args.n_hole,
                                   args.bolt_spacing)])
  /\ args' = [args EXCEPT !.load_cases =
                load_cases_after_loop(args.load_cases, args.bolt_spacing)]
  /\ pc' = Tail(pc)

PureRecommend ==
  /\ pc # <<>> /\ Head(pc) = "recommend"
  /\ ret' = Append(ret, [call |-> "recommend",
                         out |-> generate_design_recommendations(
                                   args.results, args.thread, args.sigma_y_bolt_MPa,
                                   args.sigma_y_hole_MPa)])
  /\ pc' = Tail(pc)
  /\ UNCHANGED args

PureStandards ==
  /\ pc # <<>> /\ Head(pc) = "standards"
  /\ ret' = Append(ret, [call |-> "standards",
                         out |-> check_standards_compliance(args.results, args.thread,
                                                            args.standard)])
  /\ pc' = Tail(pc)
  /\ UNCHANGED args

NextPure == PureParse \/ PureMaterial \/ PureCases \/ PureRecommend \/ PureStandards

SpecPure == InitPure /\ [][NextPure]_vars

\* calls of the same function have the same outcome wherever they stand in
\* the run (their inputs are the same: the run's)
SameCallSameOutcome ==
  \A i, j \in 1..Len(ret) : ret[i].call = ret[j].call => ret[i].out = ret[j].out

\* no step writes the catalogues, the bundle, the thread or the case list
NothingWritten ==
  /\ args'.COARSE_PITCH = args.COARSE_PITCH
  /\ args'.FINE_PITCH = args.FINE_PITCH
  /\ args'.MATERIALS = args.MATERIALS
  /\ args'.results = args.results
  /\ args'.thread = args.thread
  /\ args'.load_cases = args.load_cases

C16_ReturnedThreadsSatisfyInvariant ==
  (ParseDone /\ ret.parse.ok) =>
    /\ ValidGeometry(ret.parse.val.D, ret.parse.val.p)
    /\ ret.parse.val.At.sg = 1
    /\ REq(ret.parse.val.At, tensile_stress_area(ret.parse.val.D, ret.parse.val.p))

\* the part that holds: the area of a returned Thread is the formula's
C16_AreaFollowsFormula ==
  (ParseDone /\ ret.parse.ok) =>
    /\ REq(ret.parse.val.At, tensile_stress_area(ret.parse.val.D, ret.parse.val.p))
    /\ ret.parse.val.At.sg >= 0

\* "M8x9" is returned as a Thread with D - 0.9382 p < 0
C16_PitchTooLargeReturned ==
  /\ ParseDone /\ ret.parse.ok
  /\ args.designation = <<"M", "8", "x", "9">>
  /\ RLt(ret.parse.val.D, RMul(Dec(9382, 4), ret.parse.val.p))
  /\ ret.parse.val.At.sg = 1

\* "M0x1.5" and "M10x-1.5" are returned as Threads
C16_NonPositiveNumbersReturned ==
  /\ ParseDone /\ ret.parse.ok
  /\ ret.parse.val.D.sg = 0 \/ ret.parse.val.p.sg = -1

(***************************************************************************)
(* Stress analysis.                                                        *)
(***************************************************************************)
\* math.pi
pi == RAdd(Dec(314159265, 8), Dec(3589793, 15))

\* float('inf') with its sign
SignedInfinite(sg) == [inf |-> TRUE, val |-> RInt(sg)]

\* x / b for x a float or an infinity and b a float
InfDiv(x, b) ==
  IF b.sg = 0 THEN Raise("ZeroDivisionError")
  ELSE IF x.inf THEN Ok(SignedInfinite(x.val.sg * b.sg))
  ELSE Ok(Finite(RDiv(x.val, b)))

\* a plausible slip: a stress of 0 reported where there is no area
stress_over_zero(F_applied_N, area) ==
  IF area.sg = 1 THEN Finite(RDiv(F_applied_N, area)) ELSE Finite(RZero)

\* F / area if area > 0 else float('inf')
stress_over(F_applied_N, area) ==
  IF area.sg = 1 THEN Finite(RDiv(F_applied_N, area)) ELSE SignedInfinite(1)

stress_analysis_record(bolt_stress, bolt_utilization, thread_shear_stress, thread_utilization, bearing_stress, As_total) ==
  IF ~bolt_stress.ok THEN bolt_stress
  ELSE IF ~bolt_utilization.ok THEN bolt_utilization
  ELSE IF ~thread_utilization.ok THEN thread_utilization
  ELSE Ok([bolt_stress_MPa |-> bolt_stress.val,
           bolt_utilization |-> bolt_utilization.val,
           thread_shear_stress_MPa |-> thread_shear_stress,
           thread_utilization |-> thread_utilization.val,
           bearing_stress_MPa |-> bearing_stress,
           shear_area_mm2 |-> As_total])

stress_analysis_of(thread, F_applied_N, L_e_mm, sigma_y_bolt_MPa, tau_y, bolt_stress, As_total) ==
  stress_analysis_record(
    bolt_stress,
    IF bolt_stress.ok THEN PyDiv(bolt_stress.val, sigma_y_bolt_MPa) ELSE bolt_stress,
    stress_over(F_applied_N, As_total),
    InfDiv(stress_over(F_applied_N, As_total), tau_y),
    stress_over(F_applied_N, RMul(RMul(RMul(pi, thread.D), L_e_mm), Dec(75, 2))),
    As_total)

calculate_stress_analysis(thread, F_applied_N, L_e_mm, sigma_y_bolt_MPa, sigma_y_hole_MPa, k_shear) ==
  stress_analysis_of(thread, F_applied_N, L_e_mm, sigma_y_bolt_MPa,
                     RMul(k_shear, sigma_y_hole_MPa),
                     PyDiv(F_applied_N, thread.At),
                     RMul(As_factor_of(thread), L_e_mm))

(***************************************************************************)
(* SpecScript: the feature script.  It parses a designation, sizes the     *)
(* engagement for the design load, analyses the stresses at that length    *)
(* and the fatigue life under that load; an exception ends the script.     *)
(***************************************************************************)
MaxSpaces == 1

\* where the spaces go: before the letter, after it, inside the number,
\* after the number
SpacePatterns ==
  { <<0, 0, 0, 0>>, <<1, 0, 0, 0>>, <<0, 1, 0, 0>>, <<0, 0, 1, 0>>, <<0, 0, 0, 1>>,
    <<1, 1, 1, 1>> }

\* the diameters of the coarse-pitch table
TableDiameters ==
  { 3, 4, 5, 6, 8, 10, 12, 14, 16, 18, 20, 24, 27, 30, 33, 36, 39, 42, 48, 56, 64 }

DiameterText(n) == DigitText(IntDigits(n))

\* the digits of d with k spaces after the first
Spread(d, k) == IF Len(d) < 2 THEN d ELSE <<d[1]>> \o Spaces(k) \o Tail(d)

BareDesignations(d) ==
  { Spaces(k * m[1]) \o l \o Spaces(k * m[2]) \o Spread(d, k * m[3]) \o Spaces(k * m[4]) :
      m \in SpacePatterns, k \in 1..MaxSpaces, l \in { <<"M">>, <<"m">> } }

ExplicitPitches ==
  { << <<"1", ".", "2", "5">>, Dec(125, 2) >>,
    << <<"1", ".", "0">>, RInt(1) >>,
    << <<"2">>, RInt(2) >> }

ExplicitSeparators == { <<"x">>, <<"X">>, <<"-">>, <<" ", "x", " ">> }

\* 7 has no entry in the table
ExplicitDiameters == { 7, 8, 10 }

ScriptTexts ==
  UNION { { [designation |-> t, diameter |-> n, bare |-> TRUE, pitch |-> RZero] :
              t \in BareDesignations(DiameterText(n)) } : n \in TableDiameters }
  \cup
  { [designation |-> l \o DiameterText(n) \o sep \o e[1],
     diameter |-> n, bare |-> FALSE, pitch |-> e[2]] :
      l \in { <<"M">>, <<"m">> }, n \in ExplicitDiameters,
      sep \in ExplicitSeparators, e \in ExplicitPitches }

ScriptArgs ==
  [text : ScriptTexts,
   F_design : { RInt(15000), RInt(5000) },
   F_amplitude : { RInt(5000) },
   sigma_y_bolt : { RInt(900) },
   sigma_y_hole : { RInt(276) },
   n_hole : { RInt(2), RInt(1) }]

ScriptCalls == <<"parse", "engagement", "stress", "fatigue">>

InitScript ==
  /\ pc = ScriptCalls
  /\ args \in ScriptArgs
  /\ ret = NoneCalled({"parse", "engagement", "stress", "fatigue"})

ScriptParse ==
  /\ pc # <<>> /\ Head(pc) = "parse"
  /\ ret' = [ret EXCEPT !.parse = parse_metric_thread(args.text.designation)]
  /\ pc' = Tail(pc)
  /\ UNCHANGED args

ScriptEngagement ==
  /\ pc # <<>> /\ Head(pc) = "engagement"
  /\ ret.parse.ok
  /\ ret' = [ret EXCEPT !.engagement =
               required_engagement_for_design_load(
                 ret.parse.val, args.F_design, args.sigma_y_hole, args.n_hole,
                 Dec(62, 2))]
  /\ pc' = Tail(pc)
  /\ UNCHANGED args

ScriptStress ==
  /\ pc # <<>> /\ Head(pc) = "stress"
  /\ ret.engagement.ok
  /\ ret' = [ret EXCEPT !.stress =
               calculate_stress_analysis(
                 ret.parse.val, args.F_design, ret.engagement.val, args.sigma_y_bolt,
                 args.sigma_y_hole, Dec(62, 2))]
  /\ pc' = Tail(pc)
  /\ UNCHANGED args

ScriptFatigue ==
  /\ pc # <<>> /\ Head(pc) = "fatigue"
  /\ ret.stress.ok
  /\ ret' = [ret EXCEPT !.fatigue =
               fatigue_analysis(ret.parse.val, args.F_design, args.F_amplitude,
                                args.sigma_y_bolt, RInt(10000000), "machined")]
  /\ pc' = Tail(pc)
  /\ UNCHANGED args

NextScript == ScriptParse \/ ScriptEngagement \/ ScriptStress \/ ScriptFatigue

SpecScript == InitScript /\ [][NextScript]_vars

Called(label) == ret[label].err # "pending"

\* lo <= x < hi
Between(x, lo, hi) == RLe(lo, x) /\ RLt(x, hi)

\* the worked example: "M10", 15000 N, hole yield 276 MPa, n_hole = 2
WorkedExample ==
  /\ args.text.designation = <<"M", "1", "0">>
  /\ REq(args.F_design, RInt(15000))
  /\ REq(args.sigma_y_hole, RInt(276))
  /\ REq(args.n_hole, RInt(2))

\* F / (As_factor * tau_allow) with tau_allow = 0.62 * sigma_y_hole / n_hole
QuotientOfExample ==
  RDiv(args.F_design,
       RMul(As_factor_of(ret.parse.val),
            RDiv(RMul(Dec(62, 2), args.sigma_y_hole), args.n_hole)))

\* C13, as stated: for the thread parsed from "M10",
\* required_engagement_for_design_load(thread, 15000, 276, 2.0) returns a
\* length that is 21.9 mm when rounded to one decimal place, and is
\* F / (As_factor * tau_allow).
C13_ExampleLengthIs21_9 ==
  (WorkedExample /\ Called("engagement")) =>
    /\ ret.engagement.ok
    /\ Between(ret.engagement.val, Dec(2185, 2), Dec(2195, 2))
    /\ REq(ret.engagement.val, QuotientOfExample)

\* C13, amended: the returned length is F / (As_factor * tau_allow), which is
\* 22.6 mm when rounded to one decimal place.
C13_ExampleLengthIs22_6 ==
  (WorkedExample /\ Called("engagement")) =>
    /\ ret.engagement.ok
    /\ Between(ret.engagement.val, Dec(2255, 2), Dec(2265, 2))
    /\ REq(ret.engagement.val, QuotientOfExample)

C13_Witness ==
  /\ WorkedExample /\ Called("engagement") /\ ret.engagement.ok
  /\ REq(ret.parse.val.D, RInt(10)) /\ REq(ret.parse.val.p, Dec(15, 1))

\* the fatigue example: the M10 thread, bolt yield 900 MPa, mean load
\* 15000 N, amplitude 5000 N, machined finish
FatigueExample ==
  /\ args.text.bare /\ args.text.diameter = 10
  /\ REq(args.F_design, RInt(15000))
  /\ REq(args.F_amplitude, RInt(5000))
  /\ REq(args.sigma_y_bolt, RInt(900))

\* the corrected endurance limit of the example
CorrectedLimit == RMul(RMul(RMul(RInt(450), Dec(78, 2)), Dec(85, 2)), Dec(81, 2))

\* what both readings of the example share: mean stress about 258.6 MPa and
\* alternating stress about 86.2 MPa (within 0.1), an uncorrected endurance
\* limit of 450 MPa and the returned limit corrected from it
ExampleStresses ==
  /\ ret.fatigue.ok
  /\ RLt(RAbs(RSub(ret.fatigue.val.mean_stress_MPa, Dec(2586, 1))), Dec(1, 1))
  /\ RLt(RAbs(RSub(ret.fatigue.val.alternating_stress_MPa, Dec(862, 1))), Dec(1, 1))
  /\ REq(S_e_prime(args.sigma_y_bolt), RInt(450))
  /\ REq(ret.fatigue.val.endurance_limit_MPa, CorrectedLimit)

\* C14, as stated: the example yields mean stress about 258.6 MPa,
\* alternating stress about 86.2 MPa, uncorrected endurance limit 450 MPa and
\* a fatigue safety factor below 1.5.
C14_ExampleSafetyFactorBelow1_5 ==
  (FatigueExample /\ Called("fatigue")) =>
    /\ ExampleStresses
    /\ RLt(ret.fatigue.val.fatigue_safety_factor, Dec(15, 1))

\* C14, amended: the example yields those stresses and that endurance limit,
\* and a fatigue safety factor of about 1.55 (between 1.5 and 1.6), hence
\* status INFINITE_LIFE with infinite estimated cycles.
C14_ExampleSafetyFactorAbout1_55 ==
  (FatigueExample /\ Called("fatigue")) =>
    /\ ExampleStresses
    /\ Between(ret.fatigue.val.fatigue_safety_factor, Dec(155, 2), Dec(156, 2))
    /\ ret.fatigue.val.status = "INFINITE_LIFE"
    /\ ret.fatigue.val.estimated_cycles.inf

C14_Witness ==
  /\ FatigueExample /\ Called("fatigue") /\ ret.fatigue.ok
  /\ args.text.designation = <<"M", "1", "0">>
  /\ RGt(ret.fatigue.val.fatigue_safety_factor, Dec(15, 1))

\* the table's pitch for diameter n
TablePitch(n) == ToRat(COARSE_PITCH[<<"M">> \o DiameterText(n)])

\* C15: a bare "M<D>" for a diameter of the coarse-pitch table, in either
\* letter case and with leading, trailing or embedded spaces, parses to a
\* Thread with that D, the table's pitch and the At derived from them ("M10":
\* D = 10, p = 1.5, At about 58.0); with an explicit pitch after 'x' or '-'
\* the Thread has that pitch, whether or not the diameter is in the table.
C15_BareDesignationUsesTablePitch ==
  Called("parse") =>
    /\ ret.parse.ok
    /\ REq(ret.parse.val.D, RInt(args.text.diameter))
    /\ args.text.bare =>
         /\ REq(ret.parse.val.p, TablePitch(args.text.diameter))
         /\ REq(ret.parse.val.At,
                tensile_stress_area(RInt(args.text.diameter),
                                    TablePitch(args.text.diameter)))
         /\ args.text.diameter = 10 =>
              /\ REq(ret.parse.val.p, Dec(15, 1))
              /\ Between(ret.parse.val.At, Dec(5795, 2), Dec(5805, 2))
    /\ ~args.text.bare =>
         /\ REq(ret.parse.val.p, args.text.pitch)
         /\ REq(ret.parse.val.At,
                tensile_stress_area(RInt(args.text.diameter), args.text.pitch))

\* " m 1 0 " parsed to the M10 thread
C15_Witness ==
  /\ Called("parse") /\ ret.parse.ok
  /\ args.text.designation = <<" ", "m", " ", "1", " ", "0", " ">>
  /\ REq(ret.parse.val.p, Dec(15, 1))

\* "M7x2" parsed although 7 is not in the table, "M10x1.25" with its own pitch
C15_ExplicitPitchReached ==
  /\ Called("parse") /\ ret.parse.ok
  /\ ~args.text.bare /\ args.text.diameter = 7

\* C20: the thread utilization reported at the load F and the engagement
\* length the design-load solver returned for F is exactly 1 (the shear
\* stress F / (As_factor * L_e) over the solver's tau_allow).
C20_UtilizationAtSolvedLengthIsOne ==
  Called("stress") =>
    /\ ret.stress.ok
    /\ ~ret.stress.val.thread_utilization.inf
    /\ REq(ret.stress.val.thread_utilization.val, RInt(1))

\* what the code reports instead: 1 / n_hole, the stress over k_shear times
\* the yield strength without the safety factor
C20_UtilizationIsOneOverSafetyFactor ==
  Called("stress") =>
    /\ ret.stress.ok
    /\ ~ret.stress.val.thread_utilization.inf
    /\ REq(ret.stress.val.thread_utilization.val, RDiv(RInt(1), args.n_hole))
    /\ REq(ret.stress.val.thread_shear_stress_MPa.val,
           RDiv(args.F_design, RMul(As_factor_of(ret.parse.val), ret.engagement.val)))

\* the example at n_hole = 2: utilization 0.5
C20_HalfUtilizationReached ==
  /\ WorkedExample /\ Called("stress") /\ ret.stress.ok
  /\ REq(ret.stress.val.thread_utilization.val, Dec(5, 1))

(***************************************************************************)
(* SpecStress: one run analyses the stresses of one thread at one load and *)
(* one engagement length.                                                  *)
(***************************************************************************)
MaxLengthStep == 2

EngagementLengths == { RInt(10 * i) : i \in -1..MaxLengthStep } \cup { Dec(5, 1) }

StressArgs ==
  [thread : { MetricThread(RInt(10), Dec(15, 1)), MetricThread(RInt(8), Dec(125, 2)),
              MetricThread(Dec(9382, 4), RInt(1)) },
   F_applied_N : { RInt(15000), RInt(0), RInt(-5000) },
   L_e_mm : EngagementLengths,
   sigma_y_bolt_MPa : { RInt(900), RInt(0) },
   sigma_y_hole_MPa : { RInt(276), RInt(0), RInt(-276) },
   k_shear : { Dec(62, 2) }]

InitStress ==
  /\ pc = <<"stress">>
  /\ args \in StressArgs
  /\ ret = NoneCalled({"stress"})

CallStress ==
  /\ pc # <<>> /\ Head(pc) = "stress"
  /\ ret' = [ret EXCEPT !.stress =
               calculate_stress_analysis(args.thread, args.F_applied_N, args.L_e_mm,
                                         args.sigma_y_bolt_MPa, args.sigma_y_hole_MPa,
                                         args.k_shear)]
  /\ pc' = Tail(pc)
  /\ UNCHANGED args

NextStress == CallStress

SpecStress == InitStress /\ [][NextStress]_vars

StressDone == pc = <<>> /\ ret.stress.err # "pending"

\* a thread with D > 0, p > 0 and D - 0.9382 p > 0, and positive yields
ValidStressInputs ==
  /\ ValidGeometry(args.thread.D, args.thread.p)
  /\ args.sigma_y_bolt_MPa.sg = 1 /\ args.sigma_y_hole_MPa.sg = 1

\* C21: with L_e = 0 on a valid thread with positive yield strengths the
\* stress analysis does not raise: the thread shear stress, the thread
\* utilization and the bearing stress of the returned record are infinite and
\* shear_area_mm2 is 0.
C21_ZeroShearAreaReportsInfinity ==
  (StressDone /\ ValidStressInputs /\ args.L_e_mm.sg = 0) =>
    /\ ret.stress.ok
    /\ ret.stress.val.thread_shear_stress_MPa = SignedInfinite(1)
    /\ ret.stress.val.thread_utilization = SignedInfinite(1)
    /\ ret.stress.val.bearing_stress_MPa = SignedInfinite(1)
    /\ ret.stress.val.shear_area_mm2.sg = 0

C21_Witness ==
  /\ StressDone /\ ValidStressInputs /\ args.L_e_mm.sg = 0
  /\ ret.stress.ok
  /\ ret.stress.val.thread_utilization.inf
  /\ REq(args.F_applied_N, RInt(15000))

(***************************************************************************)
(* The equivalent force of a load case (under SpecCases).                  *)
(***************************************************************************)
\* F_axial + 2 M_bending / bolt_spacing (for M_bending > 0 and
\* bolt_spacing > 0) + 0.3 F_shear
StatedEquivalent(case) ==
  RAdd(RAdd(case.F_axial,
            IF case.M_bending.sg = 1 /\ args.bolt_spacing.sg = 1
            THEN RDiv(RMul(RInt(2), case.M_bending), args.bolt_spacing)
            ELSE RZero),
       RMul(Dec(3, 1), case.F_shear))

EquivalentAsStated(i) ==
  /\ REq(ret.load_cases.val.all_cases[i].F_equivalent_N,
         StatedEquivalent(args.load_cases[i]))
  /\ REq(ret.load_cases.val.all_cases[i].L_e_mm,
         required_engagement_for_design_load(
           args.thread, StatedEquivalent(args.load_cases[i]),
           args.sigma_y_hole_MPa, args.n_hole, Dec(62, 2)).val)

\* C22: for every load case the equivalent force is F_axial, plus
\* 2 M_bending / bolt_spacing when M_bending > 0 and bolt_spacing > 0, plus
\* 0.3 F_shear whatever the value of F_shear (zero and negative included), and
\* the case's L_e is the design-load solver's result for that force.
C22_EquivalentForceAddsShear ==
  (CasesDone /\ ret.load_cases.ok) =>
    \A i \in 1..Len(args.load_cases) : EquivalentAsStated(i)

\* what holds: the statement for the cases whose shear force is not negative
C22_HoldsForNonNegativeShear ==
  (CasesDone /\ ret.load_cases.ok) =>
    \A i \in 1..Len(args.load_cases) :
      args.load_cases[i].F_shear.sg >= 0 => EquivalentAsStated(i)

\* a case with a negative shear force is reported with its shear left out
C22_NegativeShearLeftOut ==
  /\ CasesDone /\ ret.load_cases.ok
  /\ Len(args.load_cases) = 1
  /\ args.load_cases[1].F_shear.sg = -1
  /\ REq(ret.load_cases.val.all_cases[1].F_equivalent_N, args.load_cases[1].F_axial)

\* a positive shear force and a bending moment are both added
C22_ShearAndBendingReached ==
  /\ CasesDone /\ ret.load_cases.ok
  /\ \E i \in 1..Len(args.load_cases) :
       args.load_cases[i].F_shear.sg = 1 /\ EquivalentAsStated(i)
  /\ \E i \in 1..Len(args.load_cases) :
       /\ args.load_cases[i].M_bending.sg = 1 /\ args.bolt_spacing.sg = 1
       /\ RGt(ret.load_cases.val.all_cases[i].F_equivalent_N, args.load_cases[i].F_axial)

(***************************************************************************)
(* The source of the effective safety factor (under SpecStandards).        *)
(***************************************************************************)
\* the results carry a stress result: the two utilisations
CarriesStress ==
  /\ "stress_analysis" \in DOMAIN args.results
  /\ "bolt_utilization" \in DOMAIN args.results.stress_analysis

\* min(1/bolt_utilization, 1/thread_utilization) with a stress result (a
\* utilisation of 0 limits nothing), else the margin supplied, else 2.0
StatedSafetyFactor ==
  IF CarriesStress
  THEN py_min(Reciprocal(args.results.stress_analysis.bolt_utilization),
              Reciprocal(args.results.stress_analysis.thread_utilization))
  ELSE IF "margin" \in DOMAIN args.results THEN args.results.margin
  ELSE RInt(2)

SafetyCheckAsStated ==
  /\ ret.standards.err # "KeyError"
  /\ ret.standards.ok =>
       (ret.standards.val.checks[1] = <<"pass", "safety_factor">>
          <=> RGe(StatedSafetyFactor, MinSafetyFactor))

\* C23: the safety-factor check is made on min(1/bolt_utilization,
\* 1/thread_utilization) when the results carry a stress result (whatever
\* margin is supplied with it), otherwise on the margin when one is supplied,
\* otherwise on 2.0.
C23_SafetyFactorFromStressThenMargin ==
  StandardsDone => SafetyCheckAsStated

\* what holds: the statement for results without a stress_analysis entry or
\* with one that holds the utilisations
C23_HoldsForPresentUtilisations ==
  (StandardsDone /\ ("stress_analysis" \in DOMAIN args.results => CarriesStress)) =>
    SafetyCheckAsStated

\* an empty stress_analysis entry beside a margin ends in KeyError
C23_EmptyStressEntryRaises ==
  /\ StandardsDone
  /\ "stress_analysis" \in DOMAIN args.results /\ ~CarriesStress
  /\ "margin" \in DOMAIN args.results
  /\ ret.standards.err = "KeyError"

\* a stress result that fails the check beside a margin that would pass it
C23_StressBeforeMarginReached ==
  /\ StandardsDone /\ ret.standards.ok /\ CarriesStress
  /\ RGe(args.results.margin, MinSafetyFactor)
  /\ ret.standards.val.checks[1] = <<"fail", "safety_factor">>

(***************************************************************************)
(* Thread inserts.                                                         *)
(***************************************************************************)
insert_yields ==
  [stainless |-> RInt(520), phosphor_bronze |-> RInt(380), inconel |-> RInt(1000)]

\* a plausible slip: the weakest insert taken for an unknown material
insert_yield_weakest_default(insert_material) ==
  IF insert_material \in DOMAIN insert_yields THEN insert_yields[insert_material]
  ELSE RInt(380)

\* insert_yields.get(insert_material, 520)
insert_yield(insert_material) ==
  IF insert_material \in DOMAIN insert_yields THEN insert_yields[insert_material]
  ELSE RInt(520)

\* ((L_e_without_insert - L_e_with_insert) / L_e_without_insert) * 100
reduction_percent(L_e_with_insert, L_e_without_insert) ==
  IF L_e_without_insert.sg = 0 THEN Raise("ZeroDivisionError")
  ELSE Ok(RMul(RDiv(RSub(L_e_without_insert, L_e_with_insert), L_e_without_insert),
               RInt(100)))

\* the record returned, from the outcomes of the two solver runs; the texts
\* insert_type and tap_size are left out
helicoil_record(thread, sigma_y_hole_original_MPa, insert_material, sigma_y_insert, L_e_with_insert, L_e_without_insert) ==
  IF ~L_e_with_insert.ok THEN L_e_with_insert
  ELSE IF ~L_e_without_insert.ok THEN L_e_without_insert
  ELSE IF ~reduction_percent(L_e_with_insert.val, L_e_without_insert.val).ok
  THEN reduction_percent(L_e_with_insert.val, L_e_without_insert.val)
  ELSE IF thread.p.sg = 0 THEN Raise("ZeroDivisionError")
  ELSE Ok([insert_material |-> insert_material,
           insert_yield_MPa |-> sigma_y_insert,
           engagement_with_insert_mm |-> L_e_with_insert.val,
           engagement_without_insert_mm |-> L_e_without_insert.val,
           engagement_reduction_percent |->
             reduction_percent(L_e_with_insert.val, L_e_without_insert.val).val,
           drill_size_mm |-> RMul(thread.D, Dec(1085, 3)),
           threads_engaged |-> RDiv(L_e_with_insert.val, thread.p),
           recommendation |-> IF RLt(sigma_y_hole_original_MPa, RInt(300))
                              THEN "HIGHLY RECOMMENDED" ELSE "OPTIONAL"])

helicoil_design(thread, sigma_y_hole_original_MPa, F_design_N, n_hole, insert_material) ==
  helicoil_record(
    thread, sigma_y_hole_original_MPa, insert_material, insert_yield(insert_material),
    required_engagement_for_design_load(
      thread, F_design_N, insert_yield(insert_material), n_hole, Dec(62, 2)),
    required_engagement_for_design_load(
      thread, F_design_N, sigma_y_hole_original_MPa, n_hole, Dec(62, 2)))

(***************************************************************************)
(* SpecInsert: one run designs the insert for one thread, hole material    *)
(* and load.                                                               *)
(***************************************************************************)
MaxInsertLoadStep == 2

InsertLoads == { RInt(7500 * i) : i \in -1..MaxInsertLoadStep }

InsertMaterials == { "stainless", "phosphor_bronze", "inconel", "titanium" }

InsertArgs ==
  [thread : { MetricThread(RInt(10), Dec(15, 1)), MetricThread(RInt(8), Dec(125, 2)),
              MetricThread(RInt(1), RInt(2)) },
   sigma_y_hole_original_MPa : { RInt(276), RInt(380), RInt(520), RInt(600), RInt(0) },
   F_design_N : InsertLoads,
   n_hole : { RInt(2), RInt(0) },
   insert_material : InsertMaterials]

InitInsert ==
  /\ pc = <<"helicoil">>
  /\ args \in InsertArgs
  /\ ret = NoneCalled({"helicoil"})

CallHelicoil ==
  /\ pc # <<>> /\ Head(pc) = "helicoil"
  /\ ret' = [ret EXCEPT !.helicoil =
               helicoil_design(args.thread, args.sigma_y_hole_original_MPa,
                               args.F_design_N, args.n_hole, args.insert_material)]
  /\ pc' = Tail(pc)
  /\ UNCHANGED args

NextInsert == CallHelicoil

SpecInsert == InitInsert /\ [][NextInsert]_vars

InsertDone == pc = <<>> /\ ret.helicoil.err # "pending"

\* the insert yield of the spec's table, 520 for a material not in it
StatedInsertYield ==
  CASE args.insert_material = "phosphor_bronze" -> RInt(380)
    [] args.insert_material = "inconel" -> RInt(1000)
    [] OTHER -> RInt(520)

\* the two solver runs, as a caller would make them
RunWithInsert ==
  required_engagement_for_design_load(
    args.thread, args.F_design_N, StatedInsertYield, args.n_hole, Dec(62, 2))

RunWithoutInsert ==
  required_engagement_for_design_load(
    args.thread, args.F_design_N, args.sigma_y_hole_original_MPa, args.n_hole, Dec(62, 2))

InsertAsStated ==
  /\ (RunWithInsert.ok /\ RunWithoutInsert.ok) =>
       /\ ret.helicoil.ok
       /\ REq(ret.helicoil.val.engagement_reduction_percent,
              RMul(RDiv(RSub(RunWithoutInsert.val, RunWithInsert.val),
                        RunWithoutInsert.val), RInt(100)))
       /\ ret.helicoil.val.engagement_reduction_percent.sg = 1
            <=> RLt(args.sigma_y_hole_original_MPa, StatedInsertYield)
       /\ REq(ret.helicoil.val.engagement_reduction_percent,
              RMul(RSub(RInt(1), RDiv(args.sigma_y_hole_original_MPa, StatedInsertYield)),
                   RInt(100)))
  /\ ~RunWithInsert.ok => ret.helicoil = RunWithInsert
  /\ (RunWithInsert.ok /\ ~RunWithoutInsert.ok) => ret.helicoil = RunWithoutInsert

\* C27: whenever both design-load solver runs succeed, helicoil_design returns
\* a record whose engagement_reduction_percent is
\* ((L_without - L_with) / L_without) * 100, positive exactly when the
\* original hole yield is below the insert yield and the same for every load
\* ((1 - hole yield / insert yield) * 100); an error of a solver run is the
\* outcome of helicoil_design.
C27_ReductionFromTheTwoLengths ==
  InsertDone => InsertAsStated

\* what holds: the statement for loads other than 0
C27_HoldsForNonZeroLoad ==
  (InsertDone /\ args.F_design_N.sg # 0) => InsertAsStated

\* at load 0 both runs return length 0 and the reduction is a division by 0
C27_ZeroLoadRaises ==
  /\ InsertDone
  /\ RunWithInsert.ok /\ RunWithoutInsert.ok
  /\ args.F_design_N.sg = 0
  /\ ret.helicoil.err = "ZeroDivisionError"

\* a positive and a negative reduction are both returned
C27_ReductionReached ==
  /\ InsertDone /\ ret.helicoil.ok
  /\ ret.helicoil.val.engagement_reduction_percent.sg = -1
  /\ args.insert_material = "phosphor_bronze"

(***************************************************************************)
(* SpecDefaults: one run makes the three calls that look a name up in a    *)
(* table, each once with the caller's name and once with the default name. *)
(***************************************************************************)
DefaultsCalls ==
  <<"standards", "standards_default", "fatigue", "fatigue_default",
    "helicoil", "helicoil_default">>

DefaultsArgs ==
  [results : { [n_threads |-> RInt(6), L_e_mm |-> RInt(10), margin |-> Dec(25, 1)],
               [n_threads |-> RInt(5), L_e_mm |-> RInt(26), margin |-> Dec(14, 1),
                stress_analysis |-> [bolt_utilization |-> Dec(5, 1),
                                     thread_utilization |-> Dec(4, 1)]] },
   thread : { MetricThread(RInt(10), Dec(15, 1)) },
   standard : { "JIS", "VDI2230", "ASME_BPVC" },
   surface_finish : { "anodized", "machined", "as_forged" },
   insert_material : { "titanium", "stainless", "inconel" },
   F_design_N : { RInt(15000), RInt(30000) },
   F_amplitude_N : { RInt(5000) },
   sigma_y_bolt_MPa : { RInt(900) },
   sigma_y_hole_MPa : { RInt(276) },
   n_hole : { RInt(2) }]

InitDefaults ==
  /\ pc = DefaultsCalls
  /\ args \in DefaultsArgs
  /\ ret = NoneCalled({ DefaultsCalls[i] : i \in 1..Len(DefaultsCalls) })

DefaultsStandards ==
  /\ pc # <<>> /\ Head(pc) \in {"standards", "standards_default"}
  /\ ret' = [ret EXCEPT ![Head(pc)] =
               check_standards_compliance(
                 args.results, args.thread,
                 IF Head(pc) = "standards" THEN args.standard ELSE "VDI2230")]
  /\ pc' = Tail(pc)
  /\ UNCHANGED args

DefaultsFatigue ==
  /\ pc # <<>> /\ Head(pc) \in {"fatigue", "fatigue_default"}
  /\ ret' = [ret EXCEPT ![Head(pc)] =
               fatigue_analysis(
                 args.thread, args.F_design_N, args.F_amplitude_N, args.sigma_y_bolt_MPa,
                 RInt(1000000),
                 IF Head(pc) = "fatigue" THEN args.surface_finish ELSE "machined")]
  /\ pc' = Tail(pc)
  /\ UNCHANGED args

DefaultsHelicoil ==
  /\ pc # <<>> /\ Head(pc) \in {"helicoil", "helicoil_default"}
  /\ ret' = [ret EXCEPT ![Head(pc)] =
               helicoil_design(
                 args.thread, args.sigma_y_hole_MPa, args.F_design_N, args.n_hole,
                 IF Head(pc) = "helicoil" THEN args.insert_material ELSE "stainless")]
  /\ pc' = Tail(pc)
  /\ UNCHANGED args

NextDefaults == DefaultsStandards \/ DefaultsFatigue \/ DefaultsHelicoil

SpecDefaults == InitDefaults /\ [][NextDefaults]_vars

KnownStandards == { "VDI2230", "ISO898", "ASME_BPVC", "DIN" }
KnownFinishes == { "polished", "ground", "machined", "hot_rolled", "as_forged" }
KnownInserts == { "stainless", "phosphor_bronze", "inconel" }

\* C24: an unknown name never raises and behaves as the default name: an
\* unknown standard gives the passes, fails and compliant of 'VDI2230', an
\* unknown surface finish the record of 'machined' (endurance limit
\* 0.78 * 0.85 * 0.81 * S_e'), an unknown insert material the 'stainless'
\* yield of 520 MPa and its lengths.
C24_UnknownNamesBehaveAsDefault ==
  /\ (Called("standards_default") /\ args.standard \notin KnownStandards) =>
       /\ ret.standards.ok /\ ret.standards_default.ok
       /\ ret.standards.val.passes = ret.standards_default.val.passes
       /\ ret.standards.val.fails = ret.standards_default.val.fails
       /\ ret.standards.val.compliant = ret.standards_default.val.compliant
  /\ (Called("fatigue_default") /\ args.surface_finish \notin KnownFinishes) =>
       /\ ret.fatigue.ok
       /\ ret.fatigue = ret.fatigue_default
       /\ REq(ret.fatigue.val.endurance_limit_MPa,
              RMul(RMul(RMul(S_e_prime(args.sigma_y_bolt_MPa), Dec(78, 2)), Dec(85, 2)),
                   Dec(81, 2)))
  /\ (Called("helicoil_default") /\ args.insert_material \notin KnownInserts) =>
       /\ ret.helicoil.ok /\ ret.helicoil_default.ok
       /\ REq(ret.helicoil.val.insert_yield_MPa, RInt(520))
       /\ ret.helicoil.val.engagement_with_insert_mm
            = ret.helicoil_default.val.engagement_with_insert_mm
       /\ ret.helicoil.val.engagement_reduction_percent
            = ret.helicoil_default.val.engagement_reduction_percent

\* the three unknown names in one run, all six calls made
C24_Witness ==
  /\ pc = <<>>
  /\ args.standard = "JIS" /\ args.surface_finish = "anodized"
  /\ args.insert_material = "titanium"
  /\ ret.standards.ok /\ ret.fatigue.ok /\ ret.helicoil.ok
  /\ ret.helicoil.val.insert_material = "titanium"

\* a known name other than the default gives another outcome
C24_KnownNamesDifferReached ==
  /\ pc = <<>>
  /\ args.standard = "ASME_BPVC" /\ args.surface_finish = "as_forged"
  /\ args.insert_material = "inconel"
  /\ ret.standards.val.fails # ret.standards_default.val.fails
  /\ ret.fatigue # ret.fatigue_default
  /\ ~REq(ret.helicoil.val.insert_yield_MPa, RInt(520))

(***************************************************************************)
(* Finite life and the guards of the safety factor (under SpecFatigue).    *)
(***************************************************************************)
\* the corrected endurance limit of the run, 0.78 for an unknown finish
RunEnduranceLimit ==
  RMul(RMul(RMul(S_e_prime(args.sigma_y_bolt_MPa),
                 IF args.surface_finish \in DOMAIN finish_factors
                 THEN finish_factors[args.surface_finish] ELSE Dec(78, 2)),
            Dec(85, 2)), Dec(81, 2))

\* the ninth power, by repeated squaring
NinthPower(x) == RMul(RMul(RMul(RMul(x, x), RMul(x, x)), RMul(RMul(x, x), RMul(x, x))), x)

FiniteLifeAsStated ==
  /\ ret.fatigue.err # "OverflowError"
  /\ (ret.fatigue.ok /\ RLt(ret.fatigue.val.fatigue_safety_factor, RInt(1))) =>
       /\ ret.fatigue.val.status = "FINITE_LIFE"
       /\ ret.fatigue.val.alternating_stress_MPa.sg = 1 =>
            /\ ~ret.fatigue.val.estimated_cycles.inf
            /\ REq(ret.fatigue.val.estimated_cycles.val,
                   NinthPower(RDiv(RunEnduranceLimit,
                                   ret.fatigue.val.alternating_stress_MPa)))
       /\ ret.fatigue.val.alternating_stress_MPa.sg = 0 =>
            /\ ret.fatigue.val.estimated_cycles.inf
            /\ ret.fatigue.val.safe_for_cycles
  /\ (RunEnduranceLimit.sg <= 0 \/ args.sigma_y_bolt_MPa.sg <= 0) =>
       /\ ret.fatigue.ok
       /\ ret.fatigue.val.fatigue_safety_factor.sg = 0

\* C25: a safety factor below 1 gives status FINITE_LIFE with estimated
\* cycles (S_e / sigma_alt)^9 when sigma_alt > 0 and infinite cycles with
\* safe_for_cycles true when sigma_alt = 0; with S_e <= 0 or a bolt yield
\* strength <= 0 the safety factor is 0 and no error is raised.
C25_FiniteLifeCyclesAndGuards ==
  FatigueDone => FiniteLifeAsStated

\* what holds: the statement for the runs whose ninth power is a float
C25_HoldsWithoutOverflow ==
  (FatigueDone /\ ret.fatigue.err # "OverflowError") => FiniteLifeAsStated

\* finite life with infinite cycles, and a yield of 0 with safety factor 0
C25_FiniteLifeInfiniteCyclesReached ==
  /\ FatigueDone /\ ret.fatigue.ok
  /\ ret.fatigue.val.status = "FINITE_LIFE"
  /\ ret.fatigue.val.estimated_cycles.inf
  /\ args.sigma_y_bolt_MPa.sg = 1

C25_GuardedSafetyFactorReached ==
  /\ FatigueDone /\ ret.fatigue.ok
  /\ args.sigma_y_bolt_MPa.sg <= 0
  /\ ret.fatigue.val.fatigue_safety_factor.sg = 0
  /\ ~ret.fatigue.val.estimated_cycles.inf

\* a positive yield with an amplitude of 1e-31 N ends in OverflowError
C25_OverflowReached ==
  /\ FatigueDone /\ ret.fatigue.err = "OverflowError"

\* a thread with At > 0, a positive yield, loads that are not negative
LoadedBoltInputs ==
  /\ args.thread.At.sg = 1
  /\ args.sigma_y_bolt_MPa.sg = 1
  /\ args.F_mean_N.sg >= 0 /\ args.F_amplitude_N.sg >= 0

\* C29: for every thread with At > 0, every positive bolt yield strength and
\* every pair of mean and amplitude loads that are not negative, both zero
\* included, fatigue_analysis returns a record and does not raise.
C29_FatigueReturnsForEveryLoad ==
  (FatigueDone /\ LoadedBoltInputs) => ret.fatigue.ok

\* what holds: the only errors are the division by zero of the unloaded bolt
\* and the overflow of the ninth power
C29_RaisesOnlyUnloadedOrOverflow ==
  (FatigueDone /\ LoadedBoltInputs) =>
    \/ ret.fatigue.ok
    \/ /\ ret.fatigue.err = "ZeroDivisionError"
       /\ args.F_mean_N.sg = 0 /\ args.F_amplitude_N.sg = 0
    \/ /\ ret.fatigue.err = "OverflowError"
       /\ RLt(args.F_amplitude_N, RInt(1)) /\ args.F_amplitude_N.sg = 1

\* the unloaded bolt: both loads zero
C29_UnloadedBoltRaises ==
  /\ FatigueDone /\ LoadedBoltInputs
  /\ args.F_mean_N.sg = 0 /\ args.F_amplitude_N.sg = 0
  /\ ret.fatigue.err = "ZeroDivisionError"

(***************************************************************************)
(* Assembly torque.                                                        *)
(***************************************************************************)
\* K * D * F_preload / 1000
torque_of(K, D, F_preload) == RDiv(RMul(RMul(K, D), F_preload), RInt(1000))

torque_record(thread, friction_coef, F_proof, F_preload) ==
  [preload_force_N |-> F_preload,
   proof_load_N |-> F_proof,
   torque_dry_Nm |-> torque_of(Dec(20, 2), thread.D, F_preload),
   torque_lubricated_Nm |-> torque_of(friction_coef, thread.D, F_preload),
   torque_min_Nm |-> RMul(torque_of(friction_coef, thread.D, F_preload), Dec(9, 1)),
   torque_max_Nm |-> RMul(torque_of(Dec(20, 2), thread.D, F_preload), Dec(11, 1)),
   torque_recommended_Nm |-> torque_of(friction_coef, thread.D, F_preload),
   friction_coefficient |-> friction_coef]

\* a plausible slip: the preload taken on the allowable bolt load
torque_on_allowable_load(thread, sigma_y_bolt_MPa, n_bolt, friction_coef, preload_fraction) ==
  IF n_bolt.sg = 0 THEN Raise("ZeroDivisionError")
  ELSE Ok(torque_record(
            thread, friction_coef,
            RMul(thread.At, RMul(Dec(9, 1), sigma_y_bolt_MPa)),
            RMul(preload_fraction,
                 RDiv(RMul(thread.At, RMul(Dec(9, 1), sigma_y_bolt_MPa)), n_bolt))))

calculate_assembly_torque(thread, sigma_y_bolt_MPa, n_bolt, friction_coef, preload_fraction) ==
  Ok(torque_record(
       thread, friction_coef,
       RMul(thread.At, RMul(Dec(9, 1), sigma_y_bolt_MPa)),
       RMul(preload_fraction, RMul(thread.At, RMul(Dec(9, 1), sigma_y_bolt_MPa)))))

(***************************************************************************)
(* SpecTorque: one run computes the torque of one bolt twice, with two     *)
(* safety factors n_bolt.                                                  *)
(***************************************************************************)
MaxFrictionStep == 6

\* 0, 0.05, ..., 0.30
FrictionCoefs == { Dec(5 * i, 2) : i \in 0..MaxFrictionStep } \cup { Dec(22, 2) }

TorqueArgs ==
  [thread : { MetricThread(RInt(10), Dec(15, 1)), MetricThread(RInt(8), Dec(125, 2)),
              MetricThread(Dec(9382, 4), RInt(1)) },
   sigma_y_bolt_MPa : { RInt(900), RInt(640), RInt(0) },
   n_bolt : { RInt(2), Dec(25, 1) },
   other_n_bolt : { RInt(1), RInt(0) },
   friction_coef : FrictionCoefs,
   preload_fraction : { Dec(75, 2), Dec(7, 1), RInt(0) }]

InitTorque ==
  /\ pc = <<"torque", "torque_other_n_bolt">>
  /\ args \in TorqueArgs
  /\ ret = NoneCalled({"torque", "torque_other_n_bolt"})

CallTorque ==
  /\ pc # <<>> /\ Head(pc) \in {"torque", "torque_other_n_bolt"}
  /\ ret' = [ret EXCEPT ![Head(pc)] =
               calculate_assembly_torque(
                 args.thread, args.sigma_y_bolt_MPa,
                 IF Head(pc) = "torque" THEN args.n_bolt ELSE args.other_n_bolt,
                 args.friction_coef, args.preload_fraction)]
  /\ pc' = Tail(pc)
  /\ UNCHANGED args

NextTorque == CallTorque

SpecTorque == InitTorque /\ [][NextTorque]_vars

TorqueDone == pc = <<>> /\ ret.torque_other_n_bolt.err # "pending"

\* the proof load and preload of the run, from the stated formulas
StatedProofLoad == RMul(RMul(Dec(9, 1), args.sigma_y_bolt_MPa), args.thread.At)

StatedPreload == RMul(args.preload_fraction, StatedProofLoad)

StatedTorque(K) == RDiv(RMul(RMul(K, args.thread.D), StatedPreload), RInt(1000))

\* C26: proof load = 0.9 * sigma_y_bolt * At, preload = preload_fraction *
\* proof load, dry torque = 0.20 * D * preload / 1000, lubricated torque =
\* friction_coef * D * preload / 1000, recommended = lubricated, minimum =
\* 0.9 * lubricated, maximum = 1.1 * dry; the same record for every n_bolt.
C26_TorqueFormulas ==
  TorqueDone =>
    /\ ret.torque.ok /\ ret.torque_other_n_bolt.ok
    /\ REq(ret.torque.val.proof_load_N, StatedProofLoad)
    /\ REq(ret.torque.val.preload_force_N, StatedPreload)
    /\ REq(ret.torque.val.torque_dry_Nm, StatedTorque(Dec(2, 1)))
    /\ REq(ret.torque.val.torque_lubricated_Nm, StatedTorque(args.friction_coef))
    /\ REq(ret.torque.val.torque_recommended_Nm, ret.torque.val.torque_lubricated_Nm)
    /\ REq(ret.torque.val.torque_min_Nm, RMul(Dec(9, 1), StatedTorque(args.friction_coef)))
    /\ REq(ret.torque.val.torque_max_Nm, RMul(Dec(11, 1), StatedTorque(Dec(2, 1))))
    /\ ret.torque_other_n_bolt = ret.torque

\* M10x1.5, 900 MPa, friction 0.15, preload fraction 0.75, n_bolt 2.5 and 0
C26_Witness ==
  /\ TorqueDone /\ ret.torque.ok
  /\ REq(args.thread.D, RInt(10)) /\ REq(args.sigma_y_bolt_MPa, RInt(900))
  /\ REq(args.friction_coef, Dec(15, 2)) /\ REq(args.preload_fraction, Dec(75, 2))
  /\ REq(args.n_bolt, Dec(25, 1)) /\ args.other_n_bolt.sg = 0
  /\ Between(ret.torque.val.torque_recommended_Nm, RInt(52), RInt(53))

PositiveTorqueInputs ==
  /\ args.sigma_y_bolt_MPa.sg = 1
  /\ args.preload_fraction.sg = 1
  /\ args.friction_coef.sg = 1

BandOrdered ==
  /\ RLe(ret.torque.val.torque_min_Nm, ret.torque.val.torque_recommended_Nm)
  /\ RLe(ret.torque.val.torque_recommended_Nm, ret.torque.val.torque_max_Nm)

\* C28: for every thread, positive bolt yield strength, positive preload
\* fraction and positive friction coefficient:
\* torque_min_Nm <= torque_recommended_Nm <= torque_max_Nm.
C28_TorqueBandOrdered ==
  (TorqueDone /\ PositiveTorqueInputs) => BandOrdered

\* what holds: the band is ordered for friction coefficients up to 0.22
C28_OrderedUpToDryBand ==
  (TorqueDone /\ PositiveTorqueInputs /\ RLe(args.friction_coef, Dec(22, 2))) =>
    BandOrdered

\* friction 0.25: the recommended torque is above the maximum, and even the
\* minimum is
C28_RecommendedAboveMaximum ==
  /\ TorqueDone /\ PositiveTorqueInputs
  /\ REq(args.friction_coef, Dec(25, 2))
  /\ RGt(ret.torque.val.torque_recommended_Nm, ret.torque.val.torque_max_Nm)
  /\ RGt(ret.torque.val.torque_min_Nm, ret.torque.val.torque_max_Nm)

(***************************************************************************)
(* The calculation history of a session.                                   *)
(***************************************************************************)
\* history[-20:]
last_20(history) ==
  IF Len(history) <= 20 THEN history ELSE SubSeq(history, Len(history) - 19, Len(history))

\* a plausible slip: history[:20], the oldest entries kept
first_20(history) ==
  IF Len(history) <= 20 THEN history ELSE SubSeq(history, 1, 20)

\* a plausible slip: the oldest 20 entries kept
save_keeping_oldest(session, timestamp, calc_data) ==
  [calc_history |->
     first_20(Append(IF "calc_history" \in DOMAIN session THEN session.calc_history
                     ELSE <<>>,
                     [timestamp |-> timestamp, data |-> calc_data]))]

\* the session after save_to_history(calc_data) at the time timestamp
save_to_history(session, timestamp, calc_data) ==
  [calc_history |->
     last_20(Append(IF "calc_history" \in DOMAIN session THEN session.calc_history
                    ELSE <<>>,
                    [timestamp |-> timestamp, data |-> calc_data]))]

\* the session after clear_history()
clear_history(session) == [calc_history |-> <<>>]

(***************************************************************************)
(* SpecHistory: the requests of one session, one after the other: a        *)
(* calculation that succeeds and is saved, a calculation that ends in an   *)
(* error, or /clear-history.  Here args is the session; ret counts the     *)
(* requests and keeps what was saved since the last clear, the kind of the *)
(* last request and the history stored before it.                          *)
(***************************************************************************)
MaxRequests == 23
MaxClears == 1
MaxErrors == 1

\* the stored history: nothing before the first save or clear
StoredHistory == IF "calc_history" \in DOMAIN args THEN args.calc_history ELSE <<>>

InitHistory ==
  /\ pc = <<>>
  /\ args = <<>>
  /\ ret = [requests |-> 0, clears |-> 0, errors |-> 0, saved |-> <<>>, last |-> "none",
            before |-> <<>>]

\* index(): the calculation succeeds and its data are saved
Calculate ==
  /\ ret.requests < MaxRequests
  /\ args' = save_to_history(args, ret.requests + 1,
                             [thread |-> "M10", load |-> 1000 * (ret.requests + 1)])
  /\ ret' = [ret EXCEPT !.requests = @ + 1, !.last = "save", !.before = StoredHistory,
                        !.saved = Append(@, [timestamp |-> ret.requests + 1,
                                             data |-> [thread |-> "M10",
                                                       load |-> 1000 * (ret.requests + 1)]])]
  /\ UNCHANGED pc

\* index(): the calculation raises before save_to_history is reached
CalculateWithError ==
  /\ ret.requests < MaxRequests /\ ret.errors < MaxErrors
  /\ ret' = [ret EXCEPT !.requests = @ + 1, !.errors = @ + 1, !.last = "error",
                        !.before = StoredHistory]
  /\ UNCHANGED <<pc, args>>

ClearHistory ==
  /\ ret.requests < MaxRequests /\ ret.clears < MaxClears
  /\ args' = clear_history(args)
  /\ ret' = [ret EXCEPT !.requests = @ + 1, !.clears = @ + 1, !.last = "clear", !.before = StoredHistory,
                        !.saved = <<>>]
  /\ UNCHANGED pc

NextHistory == Calculate \/ CalculateWithError \/ ClearHistory

SpecHistory == InitHistory /\ [][NextHistory]_vars

\* the most recent k entries of s, in the order of s
MostRecent(s, k) == [i \in 1..k |-> s[Len(s) - k + i]]

MinOf(a, b) == IF a <= b THEN a ELSE b

\* C30: after any sequence of saves and clears the stored history holds at
\* most 20 entries, exactly the most recent min(n, 20) of the n saved since
\* the last clear, in the order saved; after a clear it is empty; a
\* calculation that ended in an error saved nothing.
C30_HistoryIsLastTwentySaved ==
  /\ Len(StoredHistory) <= 20
  /\ StoredHistory = MostRecent(ret.saved, MinOf(Len(ret.saved), 20))
  /\ ret.last = "clear" => StoredHistory = <<>>
  /\ ret.last = "error" => StoredHistory = ret.before

\* 22 saved since the clear: the history is entries 3 to 22 of them
C30_Witness ==
  /\ Len(ret.saved) = 22 /\ ret.clears = 1
  /\ Len(StoredHistory) = 20
  /\ StoredHistory[1] = ret.saved[3]
  /\ StoredHistory[20].timestamp = 23

\* a calculation ended in an error with entries stored
C30_ErrorWitness == ret.last = "error" /\ Len(StoredHistory) >= 20

====
